---------------------------- MODULE Spec2Model ----------------------------
(***************************************************************************)
(* A model of termpulse's data collectors (src/termpulse/collectors.py).   *)
(* change_fingerprint and DiffExplorer (src/termpulse/widgets.py) and the  *)
(* handlers of TermPulseApp (src/termpulse/app.py) follow the collectors.  *)
(*                                                                         *)
(* Text is a sequence of atoms.  An atom is one character (" ", "\t",      *)
(* "\n", "/", a digit, a status letter ...) or an opaque word that holds   *)
(* no whitespace, no "/" and no digit ("main", "git", "a.py").  Python's   *)
(* str methods are operators on such sequences.                            *)
(*                                                                         *)
(* Times are whole seconds.  Floats that the code rounds to d decimals are *)
(* integers scaled by 10^d (velocity in tenths, diversity in hundredths).  *)
(***************************************************************************)
EXTENDS Integers, Sequences, FiniteSets, TLC

VARIABLES
    call,       \* the collector call the event loop is running or has just run:
                \* [op, env, ...outcome]; op = "none" between callbacks
    heap,       \* the list objects of the process, by reference
    _cpu_history,   \* module global: a reference to the rolling list of samples
    _net_last,  \* module global: counters and clock of the last collect_system
    cpu_samples,    \* every psutil.cpu_percent reading of this process, oldest first
    held,       \* a snapshot of collect_system that a caller has kept
    app,        \* TermPulseApp: its cached values, its view and the collectors
                \* its last handler invoked
    explorer    \* DiffExplorer: diff_files, _selected_idx and _expanded

\* The process-wide state of collect_system and of the holders of its values,
\* and the objects of the user interface.
globals == <<heap, _cpu_history, _net_last, cpu_samples, held, app, explorer>>

vars == <<call, globals>>

---------------------------------------------------------------------------
(* Python str helpers                                                      *)

IsSpace(c) == c \in {" ", "\t", "\n", "\r"}

Digits == {"0", "1", "2", "3", "4", "5", "6", "7", "8", "9"}

DigitVal(c) ==
    CASE c = "0" -> 0 [] c = "1" -> 1 [] c = "2" -> 2 [] c = "3" -> 3
      [] c = "4" -> 4 [] c = "5" -> 5 [] c = "6" -> 6 [] c = "7" -> 7
      [] c = "8" -> 8 [] c = "9" -> 9

RECURSIVE rstrip(_)
rstrip(s) ==
    IF s = <<>> THEN s
    ELSE IF IsSpace(s[Len(s)]) THEN rstrip(SubSeq(s, 1, Len(s) - 1)) ELSE s

RECURSIVE lstrip(_)
lstrip(s) ==
    IF s = <<>> THEN s
    ELSE IF IsSpace(s[1]) THEN lstrip(Tail(s)) ELSE s

strip(s) == lstrip(rstrip(s))

\* The first index of s holding an atom of the set cs, 0 when there is none.
IndexIn(s, cs) ==
    IF \E i \in 1..Len(s) : s[i] \in cs
    THEN CHOOSE i \in 1..Len(s) : s[i] \in cs /\ \A j \in 1..(i - 1) : s[j] \notin cs
    ELSE 0

\* str.splitlines(): no empty last line after a final line break.
RECURSIVE splitlines(_)
splitlines(s) ==
    IF s = <<>> THEN <<>>
    ELSE LET i == IndexIn(s, {"\n"})
         IN  IF i = 0 THEN <<s>>
             ELSE <<SubSeq(s, 1, i - 1)>> \o splitlines(SubSeq(s, i + 1, Len(s)))

\* str.split(): on runs of whitespace, no empty pieces.
RECURSIVE split(_)
split(s) ==
    LET t == lstrip(s)
        i == IndexIn(t, {" ", "\t", "\n", "\r"})
    IN  IF t = <<>> THEN <<>>
        ELSE IF i = 0 THEN <<t>>
        ELSE <<SubSeq(t, 1, i - 1)>> \o split(SubSeq(t, i + 1, Len(t)))

\* str.split(sep) for a one-character sep: empty pieces are kept.
RECURSIVE split_on(_, _)
split_on(s, sep) ==
    LET i == IndexIn(s, {sep})
    IN  IF i = 0 THEN <<s>>
        ELSE <<SubSeq(s, 1, i - 1)>> \o split_on(SubSeq(s, i + 1, Len(s)), sep)

RECURSIVE DigitsValue(_)
DigitsValue(s) ==
    IF s = <<>> THEN 0 ELSE 10 * DigitsValue(SubSeq(s, 1, Len(s) - 1)) + DigitVal(s[Len(s)])

\* int(s) / float(s) on the texts the model feeds them: surrounding whitespace
\* and one sign are accepted, then at least one digit and nothing else.
Unsigned(s) == IF s # <<>> /\ s[1] \in {"+", "-"} THEN Tail(s) ELSE s

IsNumber(s) ==
    LET u == Unsigned(strip(s))
    IN  u # <<>> /\ \A i \in 1..Len(u) : u[i] \in Digits

int(s) ==
    LET t == strip(s)
        v == DigitsValue(Unsigned(t))
    IN  IF t[1] = "-" THEN 0 - v ELSE v

\* Lines joined with line breaks, as a command prints them.
RECURSIVE Join(_)
Join(ls) ==
    IF ls = <<>> THEN <<>>
    ELSE IF Len(ls) = 1 THEN ls[1]
    ELSE ls[1] \o <<"\n">> \o Join(Tail(ls))

---------------------------------------------------------------------------
(* _run_git: a finished process is [kind, rc, stdout]; kind is "exit",     *)
(* "timeout" or "missing" (no git binary).  Optional[str] is [none, val].  *)

None == [none |-> TRUE, val |-> <<>>]

Some(s) == [none |-> FALSE, val |-> s]

\* Python truthiness of an Optional[str].
Truthy(r) == ~r.none /\ r.val # <<>>

Ok(out) == [kind |-> "exit", rc |-> 0, stdout |-> out]

ExitFail == [kind |-> "exit", rc |-> 128, stdout |-> <<>>]

Timeout == [kind |-> "timeout", rc |-> 0, stdout |-> <<>>]

Missing == [kind |-> "missing", rc |-> 0, stdout |-> <<>>]

Failed(p) == ~(p.kind = "exit" /\ p.rc = 0)

\* The exception subprocess.run ends with, "" when it returns.
RunException(p) ==
    CASE p.kind = "timeout" -> "TimeoutExpired"
      [] p.kind = "missing" -> "FileNotFoundError"
      [] OTHER -> ""

_run_git_strip(p) ==
    IF p.kind = "exit" /\ p.rc = 0 THEN Some(strip(p.stdout)) ELSE None

_run_git(p) ==
    IF p.kind = "exit" /\ p.rc = 0 THEN Some(rstrip(p.stdout)) ELSE None

\* run(["rev-parse", "--is-inside-work-tree"]) == "true", on the probe's process.
IsWorkTreeAnyExit(p) == ~_run_git(p).none

IsWorkTree(p) == _run_git(p) = Some(<<"true">>)

\* One git command run, as the model logs it: the arguments and, for the per-file
\* commands, the path after "--".
Cmd(args) == [cmd |-> args, path |-> <<>>]

CmdOn(args, path) == [cmd |-> args, path |-> path]

---------------------------------------------------------------------------
(* GitState and its derived properties                                     *)

GitState ==
    [is_repo |-> FALSE, branch |-> <<>>, ahead |-> 0, behind |-> 0,
     staged |-> 0, modified |-> 0, untracked |-> 0, conflicts |-> 0,
     last_commit_age_seconds |-> 0, last_commit_msg |-> <<>>,
     recent_commits |-> <<>>, stash_count |-> 0]

total_changes_with_conflicts(g) == g.staged + g.modified + g.untracked + g.conflicts

is_clean(g) == g.staged = 0 /\ g.modified = 0 /\ g.untracked = 0

total_changes(g) == g.staged + g.modified + g.untracked

\* A threshold that takes its own minute: m <= k.
DriftAtMost(g, minutes) == g.last_commit_age_seconds <= 60 * minutes

\* drift_minutes is age / 60.0; m < k minutes is age < 60 * k seconds.
DriftBelow(g, minutes) == g.last_commit_age_seconds < 60 * minutes

drift_level(g) ==
    IF DriftBelow(g, 15) THEN "calm"
    ELSE IF DriftBelow(g, 30) THEN "warm"
    ELSE IF DriftBelow(g, 60) THEN "hot"
    ELSE "critical"

---------------------------------------------------------------------------
(* collect_git                                                             *)

\* The loop before its fix: a conflict line counted as modified too.
StatusLineDoubleCount(c, line) ==
    IF Len(line) < 2 THEN c
    ELSE
      LET x == line[1]
          y == line[2]
          c1 == IF x = "U" \/ y = "U"
                  THEN [c EXCEPT !.conflicts = @ + 1]
                ELSE IF x \in {"M", "A", "D", "R", "C"}
                  THEN [c EXCEPT !.staged = @ + 1]
                ELSE c
      IN  IF y \in {"M", "D", "U"}
            THEN [c1 EXCEPT !.modified = @ + 1]
          ELSE IF y = "?" /\ x = "?"
            THEN [c1 EXCEPT !.untracked = @ + 1]
          ELSE c1

\* The loop with a line counted as modified only when it was not staged.
StatusLineOneCounter(c, line) ==
    IF Len(line) < 2 THEN c
    ELSE
      LET x == line[1]
          y == line[2]
      IN  IF x = "U" \/ y = "U" THEN [c EXCEPT !.conflicts = @ + 1]
          ELSE IF x \in {"M", "A", "D", "R", "C"} THEN [c EXCEPT !.staged = @ + 1]
          ELSE IF y \in {"M", "D"} THEN [c EXCEPT !.modified = @ + 1]
          ELSE IF y = "?" /\ x = "?" THEN [c EXCEPT !.untracked = @ + 1]
          ELSE c

\* One pass of the status loop: the counters c after the line.
StatusLine(c, line) ==
    IF Len(line) < 2 THEN c
    ELSE
      LET x == line[1]
          y == line[2]
          c1 == IF x = "U" \/ y = "U"
                  THEN [c EXCEPT !.conflicts = @ + 1]
                ELSE IF x \in {"M", "A", "D", "R", "C"}
                  THEN [c EXCEPT !.staged = @ + 1]
                ELSE c
      IN  IF y \in {"M", "D"} /\ x # "U" /\ y # "U"
            THEN [c1 EXCEPT !.modified = @ + 1]
          ELSE IF y = "?" /\ x = "?"
            THEN [c1 EXCEPT !.untracked = @ + 1]
          ELSE c1

RECURSIVE StatusLoop(_, _)
StatusLoop(c, lines) ==
    IF lines = <<>> THEN c ELSE StatusLoop(StatusLine(c, lines[1]), Tail(lines))

\* The branch without the last `or "?"`.
GitBranchNoLiteral(e) ==
    LET b == _run_git(e.branch)
        h == _run_git(e.head)
    IN  IF Truthy(b) THEN [val |-> b.val, calls |-> <<Cmd("branch --show-current")>>]
        ELSE [val   |-> IF Truthy(h) THEN h.val ELSE <<>>,
              calls |-> <<Cmd("branch --show-current"), Cmd("rev-parse --short HEAD")>>]

\* The branch: the two commands and the literal of line 101, with Python's `or`.
GitBranch(e) ==
    LET b == _run_git(e.branch)
        h == _run_git(e.head)
    IN  IF Truthy(b) THEN [val |-> b.val, calls |-> <<Cmd("branch --show-current")>>]
        ELSE [val   |-> IF Truthy(h) THEN h.val ELSE <<"?">>,
              calls |-> <<Cmd("branch --show-current"), Cmd("rev-parse --short HEAD")>>]

\* Ahead/behind: raised is int()'s ValueError.
GitAheadBehind(e) ==
    LET ab == _run_git(e.revlist)
        parts == split(ab.val)
    IN  IF Truthy(ab) /\ Len(parts) = 2
        THEN IF IsNumber(parts[1]) /\ IsNumber(parts[2])
             THEN [raised |-> FALSE, ahead |-> int(parts[1]), behind |-> int(parts[2])]
             ELSE [raised |-> TRUE, ahead |-> 0, behind |-> 0]
        ELSE [raised |-> FALSE, ahead |-> 0, behind |-> 0]

GitStatus(g, e) ==
    LET st == _run_git(e.status)
    IN  IF Truthy(st) THEN StatusLoop(g, splitlines(st.val)) ELSE g

\* Last commit age: raised is float()'s ValueError.
GitAge(e) ==
    LET ts == _run_git(e.ct)
    IN  IF Truthy(ts)
        THEN IF IsNumber(ts.val)
             THEN [raised |-> FALSE, age |-> e.now - int(ts.val)]
             ELSE [raised |-> TRUE, age |-> 0]
        ELSE [raised |-> FALSE, age |-> 0]

GitTail(g, e) ==
    LET msg == _run_git(e.msg)
        log == _run_git(e.log)
        stash == _run_git(e.stash)
    IN  [g EXCEPT
           !.last_commit_msg = IF Truthy(msg) THEN msg.val ELSE <<>>,
           !.recent_commits = IF Truthy(log) THEN splitlines(log.val) ELSE @,
           !.stash_count = IF Truthy(stash) THEN Len(splitlines(stash.val)) ELSE @]

\* The whole call: [raised, state, calls].  calls lists the git commands run, in
\* order; state is the returned GitState (GitState itself when the call raised).
collect_git(e) ==
    LET probe == <<Cmd("rev-parse --is-inside-work-tree")>>
        br == GitBranch(e)
        ab == GitAheadBehind(e)
        age == GitAge(e)
        g1 == [GitState EXCEPT !.is_repo = TRUE, !.branch = br.val,
                               !.ahead = ab.ahead, !.behind = ab.behind]
        g2 == GitStatus(g1, e)
        g3 == [g2 EXCEPT !.last_commit_age_seconds = age.age]
        c1 == probe \o br.calls \o <<Cmd("rev-list --left-right --count")>>
        c2 == c1 \o <<Cmd("status --porcelain"), Cmd("log -1 --format=%ct")>>
        c3 == c2 \o <<Cmd("log -1 --format=%s"), Cmd("log --oneline -5"), Cmd("stash list")>>
    IN  IF ~IsWorkTree(e.probe)
          THEN [raised |-> FALSE, state |-> GitState, calls |-> probe]
        ELSE IF ab.raised
          THEN [raised |-> TRUE, state |-> GitState, calls |-> c1]
        ELSE IF age.raised
          THEN [raised |-> TRUE, state |-> GitState, calls |-> c2]
        ELSE [raised |-> FALSE, state |-> GitTail(g3, e), calls |-> c3]

---------------------------------------------------------------------------
(* More str helpers: substrings and the order of str comparison            *)

\* The first index at which pat occurs in s, 0 when it does not.
IndexOfSub(s, pat) ==
    LET At(i) == SubSeq(s, i, i + Len(pat) - 1) = pat
        last == Len(s) - Len(pat) + 1
    IN  IF \E i \in 1..last : At(i)
        THEN CHOOSE i \in 1..last : At(i) /\ \A j \in 1..(i - 1) : ~At(j)
        ELSE 0

\* str.split(pat) for a pat of several characters.
RECURSIVE split_str(_, _)
split_str(s, pat) ==
    LET i == IndexOfSub(s, pat)
    IN  IF i = 0 THEN <<s>>
        ELSE <<SubSeq(s, 1, i - 1)>> \o split_str(SubSeq(s, i + Len(pat), Len(s)), pat)

\* Code points of the characters paths are written with.
Ord(c) ==
    CASE c = " " -> 32 [] c = "-" -> 45 [] c = "." -> 46 [] c = "/" -> 47
      [] c = ">" -> 62 [] c = "a" -> 97 [] c = "b" -> 98 [] c = "c" -> 99
      [] c = "d" -> 100

RECURSIVE StrLess(_, _)
StrLess(a, b) ==
    IF b = <<>> THEN FALSE
    ELSE IF a = <<>> THEN TRUE
    ELSE IF a[1] = b[1] THEN StrLess(Tail(a), Tail(b))
    ELSE Ord(a[1]) < Ord(b[1])

---------------------------------------------------------------------------
(* DiffFile and collect_diff_files                                         *)

DiffFile(path, st) ==
    [path |-> path, status |-> st, insertions |-> 0, deletions |-> 0,
     diff_lines |-> <<>>]

DiffTotalChanges(f) == f.insertions + f.deletions

\* The ratio taken of the deletions.
change_ratio_of_deletions(f) ==
    IF DiffTotalChanges(f) = 0 THEN [num |-> 1, den |-> 2]
    ELSE [num |-> f.deletions, den |-> DiffTotalChanges(f)]

\* change_ratio as the fraction num/den (the float the code returns).
change_ratio(f) ==
    IF DiffTotalChanges(f) = 0 THEN [num |-> 1, den |-> 2]
    ELSE [num |-> f.insertions, den |-> DiffTotalChanges(f)]

Arrow == <<" ", "-", ">", " ">>

DiffPath(line) ==
    LET path == strip(SubSeq(line, 4, Len(line)))
    IN  IF IndexOfSub(path, Arrow) # 0 THEN split_str(path, Arrow)[2] ELSE path

\* The status with a rename in the index taken before a deletion.
DiffStatusRenameFirst(x, y) ==
    IF x = "?" /\ y = "?" THEN "?"
    ELSE IF x = "A" THEN "A"
    ELSE IF x = "R" THEN "R"
    ELSE IF x = "D" \/ y = "D" THEN "D"
    ELSE "M"

DiffStatus(x, y) ==
    IF x = "?" /\ y = "?" THEN "?"
    ELSE IF x = "A" THEN "A"
    ELSE IF x = "D" \/ y = "D" THEN "D"
    ELSE IF x = "R" THEN "R"
    ELSE "M"

\* The status loop with the last line of a path deciding its status.
RECURSIVE DiffStatusLoopLastWins(_, _)
DiffStatusLoopLastWins(files, lines) ==
    IF lines = <<>> THEN files
    ELSE
      LET line == lines[1]
          path == DiffPath(line)
          f == DiffFile(path, DiffStatus(line[1], line[2]))
          next == IF Len(line) < 3 THEN files
                  ELSE IF \E i \in 1..Len(files) : files[i].path = path
                    THEN [i \in 1..Len(files) |-> IF files[i].path = path THEN f ELSE files[i]]
                  ELSE Append(files, f)
      IN  DiffStatusLoopLastWins(next, Tail(lines))

\* The status loop of collect_diff_files: files in first-seen order, one per path.
RECURSIVE DiffStatusLoop(_, _)
DiffStatusLoop(files, lines) ==
    IF lines = <<>> THEN files
    ELSE
      LET line == lines[1]
          path == DiffPath(line)
          seen == {files[i].path : i \in 1..Len(files)}
          next == IF Len(line) < 3 \/ path \in seen THEN files
                  ELSE Append(files, DiffFile(path, DiffStatus(line[1], line[2])))
      IN  DiffStatusLoop(next, Tail(lines))

NumstatFieldOk(t) == t = <<"-">> \/ IsNumber(t)

NumstatField(t) == IF t = <<"-">> THEN 0 ELSE int(t)

\* The index of the first file with the path, 0 when there is none.
FirstWithPath(files, path) ==
    IF \E i \in 1..Len(files) : files[i].path = path
    THEN CHOOSE i \in 1..Len(files) :
            files[i].path = path /\ \A j \in 1..(i - 1) : files[j].path # path
    ELSE 0

\* One numstat loop over acc = [raised, files]; the unstaged loop assigns the
\* counts (cached = FALSE), the staged loop adds them (cached = TRUE).
RECURSIVE NumstatLoop(_, _, _)
NumstatLoop(acc, lines, cached) ==
    IF lines = <<>> \/ acc.raised THEN acc
    ELSE
      LET parts == split_on(lines[1], "\t")
          i == FirstWithPath(acc.files, parts[3])
          f == acc.files[i]
          base == IF cached THEN f ELSE [f EXCEPT !.insertions = 0, !.deletions = 0]
          g == [f EXCEPT !.insertions = base.insertions + NumstatField(parts[1]),
                         !.deletions = base.deletions + NumstatField(parts[2])]
          next == IF Len(parts) # 3 THEN acc
                  ELSE IF i = 0 THEN acc
                  ELSE IF ~(NumstatFieldOk(parts[1]) /\ NumstatFieldOk(parts[2]))
                    THEN [acc EXCEPT !.raised = TRUE]
                  ELSE [acc EXCEPT !.files[i] = g]
      IN  NumstatLoop(next, Tail(lines), cached)

NumstatOverwrite(acc, proc, cached) ==
    LET out == _run_git(proc)
    IN  IF Truthy(out) THEN NumstatLoop(acc, splitlines(out.val), FALSE) ELSE acc

Numstat(acc, proc, cached) ==
    LET out == _run_git(proc)
    IN  IF Truthy(out) THEN NumstatLoop(acc, splitlines(out.val), cached) ELSE acc

\* The diff text with the staged diff tried before the unstaged one.
RECURSIVE DiffContentLoopStagedFirst(_, _, _)
DiffContentLoopStagedFirst(acc, i, e) ==
    IF i > Len(acc.files) THEN acc
    ELSE
      LET f == acc.files[i]
          d1 == _run_git(e.diff_cached[f.path])
          d2 == _run_git(e.diff[f.path])
          out == IF Truthy(d1) THEN d1 ELSE d2
          ran == IF Truthy(d1) THEN <<CmdOn("diff --cached --", f.path)>>
                 ELSE <<CmdOn("diff --cached --", f.path), CmdOn("diff --", f.path)>>
          next == IF f.status = "?" THEN acc
                  ELSE [files |-> IF Truthy(out)
                                    THEN [acc.files EXCEPT ![i].diff_lines = splitlines(out.val)]
                                  ELSE acc.files,
                        calls |-> acc.calls \o ran]
      IN  DiffContentLoopStagedFirst(next, i + 1, e)

\* The diff text of every file that is not untracked: acc = [files, calls].
RECURSIVE DiffContentLoop(_, _, _)
DiffContentLoop(acc, i, e) ==
    IF i > Len(acc.files) THEN acc
    ELSE
      LET f == acc.files[i]
          d1 == _run_git(e.diff[f.path])
          d2 == _run_git(e.diff_cached[f.path])
          out == IF Truthy(d1) THEN d1 ELSE d2
          ran == IF Truthy(d1) THEN <<CmdOn("diff --", f.path)>>
                 ELSE <<CmdOn("diff --", f.path), CmdOn("diff --cached --", f.path)>>
          next == IF f.status = "?" THEN acc
                  ELSE [files |-> IF Truthy(out)
                                    THEN [acc.files EXCEPT ![i].diff_lines = splitlines(out.val)]
                                  ELSE acc.files,
                        calls |-> acc.calls \o ran]
      IN  DiffContentLoop(next, i + 1, e)

DiffKeyLessByPath(f, g) == StrLess(f.path, g.path)

\* files.sort(key=lambda f: (f.status == "?", f.path)), a stable sort.
DiffKeyLess(f, g) ==
    IF (f.status = "?") # (g.status = "?") THEN g.status = "?"
    ELSE StrLess(f.path, g.path)

RECURSIVE DiffInsert(_, _)
DiffInsert(sorted, f) ==
    IF sorted = <<>> THEN <<f>>
    ELSE IF DiffKeyLess(f, sorted[1]) THEN <<f>> \o sorted
    ELSE <<sorted[1]>> \o DiffInsert(Tail(sorted), f)

RECURSIVE DiffSort(_)
DiffSort(files) ==
    IF files = <<>> THEN <<>>
    ELSE DiffInsert(DiffSort(SubSeq(files, 1, Len(files) - 1)), files[Len(files)])

\* The whole call: [raised, ret, calls].
collect_diff_files(e) ==
    LET c0 == <<Cmd("rev-parse --is-inside-work-tree")>>
        c1 == c0 \o <<Cmd("status --porcelain")>>
        c2 == c1 \o <<Cmd("diff --numstat")>>
        c3 == c2 \o <<Cmd("diff --numstat --cached")>>
        st == _run_git(e.status)
        files == DiffStatusLoop(<<>>, splitlines(st.val))
        n1 == Numstat([raised |-> FALSE, files |-> files], e.numstat, FALSE)
        n2 == Numstat(n1, e.numstat_cached, TRUE)
        d == DiffContentLoop([files |-> n2.files, calls |-> c3], 1, e)
    IN  IF ~IsWorkTree(e.probe)
          THEN [raised |-> FALSE, ret |-> <<>>, calls |-> c0]
        ELSE IF ~Truthy(st)
          THEN [raised |-> FALSE, ret |-> <<>>, calls |-> c1]
        ELSE IF n1.raised
          THEN [raised |-> TRUE, ret |-> <<>>, calls |-> c2]
        ELSE IF n2.raised
          THEN [raised |-> TRUE, ret |-> <<>>, calls |-> c3]
        ELSE [raised |-> FALSE, ret |-> DiffSort(d.files), calls |-> d.calls]

---------------------------------------------------------------------------
(* HeatmapEntry and collect_file_heatmap                                   *)

HeatmapEntry(path, count, author) ==
    [path |-> path, commit_count |-> count, last_author |-> author]

\* The stripped non-blank lines of the log, in order.
RECURSIVE HeatNames(_)
HeatNames(lines) ==
    IF lines = <<>> THEN <<>>
    ELSE IF strip(lines[1]) = <<>> THEN HeatNames(Tail(lines))
    ELSE <<strip(lines[1])>> \o HeatNames(Tail(lines))

\* The Counter's keys in insertion order.
RECURSIVE HeatKeys(_, _)
HeatKeys(keys, names) ==
    IF names = <<>> THEN keys
    ELSE HeatKeys(IF \E i \in 1..Len(keys) : keys[i] = names[1]
                  THEN keys ELSE Append(keys, names[1]), Tail(names))

HeatCount(names, path) == Cardinality({i \in 1..Len(names) : names[i] = path})

\* Counter.most_common(n): by count, largest first, equal counts in insertion
\* order; nothing for n <= 0.
RECURSIVE MostCommonInsert(_, _, _)
MostCommonInsert(sorted, k, names) ==
    IF sorted = <<>> THEN <<k>>
    ELSE IF HeatCount(names, k) > HeatCount(names, sorted[1]) THEN <<k>> \o sorted
    ELSE <<sorted[1]>> \o MostCommonInsert(Tail(sorted), k, names)

RECURSIVE MostCommonSort(_, _)
MostCommonSort(keys, names) ==
    IF keys = <<>> THEN <<>>
    ELSE MostCommonInsert(MostCommonSort(SubSeq(keys, 1, Len(keys) - 1), names),
                          keys[Len(keys)], names)

\* The n keys that come first in insertion order, whatever their counts.
first_keys(names, n) ==
    LET all == HeatKeys(<<>>, names)
    IN  IF n <= 0 THEN <<>> ELSE SubSeq(all, 1, IF n < Len(all) THEN n ELSE Len(all))

most_common(names, n) ==
    LET all == MostCommonSort(HeatKeys(<<>>, names), names)
    IN  IF n <= 0 THEN <<>> ELSE SubSeq(all, 1, IF n < Len(all) THEN n ELSE Len(all))

\* The whole call: [raised, ret, calls].
collect_file_heatmap(e) ==
    LET c0 == <<Cmd("rev-parse --is-inside-work-tree")>>
        c1 == c0 \o <<Cmd("log --name-only")>>
        log == _run_git(e.log)
        names == HeatNames(splitlines(log.val))
        top == most_common(names, e.limit)
        Author(path) == LET a == _run_git(e.author[path])
                        IN  IF Truthy(a) THEN a.val ELSE <<>>
    IN  IF ~IsWorkTree(e.probe)
          THEN [raised |-> FALSE, ret |-> <<>>, calls |-> c0]
        ELSE IF ~Truthy(log)
          THEN [raised |-> FALSE, ret |-> <<>>, calls |-> c1]
        ELSE [raised |-> FALSE,
              ret |-> [i \in 1..Len(top) |->
                         HeatmapEntry(top[i], HeatCount(names, top[i]), Author(top[i]))],
              calls |-> c1 \o [i \in 1..Len(top) |-> CmdOn("log -1 --format=%an --", top[i])]]

---------------------------------------------------------------------------
(* What git can answer: the environments of the three git collectors       *)

Fails == {ExitFail, Timeout, Missing}

ProbeTrue == Ok(<<"true", "\n">>)

\* Inside .git the probe prints false and exits 0.
ProbeProcs == {ProbeTrue, Ok(<<"false", "\n">>)} \cup Fails

Paths == {<<"a">>, <<"b">>, <<"c">>}

\* What the commands of collect_git print when they succeed.  The clock reads
\* 10000; %ct prints 4000 (6000 s ago), 17200 (a commit stamped 7200 s ahead of
\* this clock) or, malformed, z.
BranchOut == Ok(<<"main", "\n">>)

DetachedOut == Ok(<<>>)

HeadOut == Ok(<<"abc1234", "\n">>)

RevlistOut == Ok(<<"2", "\t", "1", "\n">>)

RevlistBad == Ok(<<"x", "\t", "1", "\n">>)

StatusOut ==
    Ok(<<" ", "M", " ", "a", "\n", "?", "?", " ", "b", "\n", "U", "U", " ", "c", "\n">>)

StatusCleanOut == Ok(<<>>)

CtPastOut == Ok(<<"4", "0", "0", "0", "\n">>)

CtAheadOut == Ok(<<"1", "7", "2", "0", "0", "\n">>)

CtBad == Ok(<<"z", "\n">>)

MsgOut == Ok(<<"fix", " ", "bug", "\n">>)

LogOut == Ok(<<"abc1234", " ", "fix", " ", "bug", "\n", "def5678", " ", "init", "\n">>)

StashOut == Ok(<<"stash@{0}: WIP", "\n">>)

\* collect_git in a work tree, every failing command failing the way f does.
GitEnvsFailing(f) ==
    [probe   : {ProbeTrue},
     branch  : {BranchOut, DetachedOut, f},
     head    : {HeadOut, f},
     revlist : {RevlistOut, RevlistBad, f},
     status  : {StatusOut, StatusCleanOut, f},
     ct      : {CtPastOut, CtAheadOut, CtBad, f},
     msg     : {MsgOut, f},
     log     : {LogOut, f},
     stash   : {StashOut, f},
     now     : {10000}]

\* collect_git outside a work tree: git would answer every later command.
GitEnvsNoRepo ==
    [probe   : ProbeProcs \ {ProbeTrue},
     branch  : {BranchOut},
     head    : {HeadOut},
     revlist : {RevlistOut},
     status  : {StatusOut},
     ct      : {CtPastOut},
     msg     : {MsgOut},
     log     : {LogOut},
     stash   : {StashOut},
     now     : {10000}]

GitEnvs == GitEnvsNoRepo \cup UNION {GitEnvsFailing(f) : f \in Fails}

DiffText == Ok(<<"@@ -1,2 +1,3 @@", "\n", "+", "x", "\n">>)

DiffEnvs ==
    [probe          : ProbeProcs,
     status         : {Ok(<<" ", "M", " ", "b", "\n", "A", " ", " ", "a", "\n",
                            "?", "?", " ", "c", "\n">>), Ok(<<>>), ExitFail},
     numstat        : {Ok(<<"3", "\t", "1", "\t", "b", "\n">>),
                       Ok(<<"x", "\t", "1", "\t", "b", "\n">>),
                       Ok(<<"-", "\t", "-", "\t", "b", "\n">>), Timeout},
     numstat_cached : {Ok(<<"2", "\t", "0", "\t", "a", "\n", "5", "\t", "4", "\t", "b", "\n">>),
                       Ok(<<"2", "\t", "q", "\t", "a", "\n">>), ExitFail},
     diff           : [Paths -> {DiffText, ExitFail}],
     diff_cached    : {[p \in Paths |-> DiffText], [p \in Paths |-> Missing]}]

HeatEnvs ==
    [probe  : ProbeProcs,
     log    : {Ok(<<"a", "\n", "b", "\n", "\n", "a", "\n", "c", "\n", "a", "\n">>),
               Ok(<<>>), Timeout},
     author : {[p \in Paths |-> Ok(<<"ann", "\n">>)], [p \in Paths |-> ExitFail]},
     limit  : {1, 2, 15}]

---------------------------------------------------------------------------
(* collect_system                                                          *)
(*                                                                         *)
(* A Python list is an object reached by reference: heap maps a reference  *)
(* to the elements of its list, and a variable or a field holds the        *)
(* reference.  CPU readings are whole percents, byte counters and rates    *)
(* are integers.  Of the snapshot, the fields below are those that read or *)
(* write process-wide state; memory, disk, load and process count are      *)
(* copied from the readings of the same call and touch nothing else.       *)

Refs == {"list1", "list2", "list3", "list4"}

\* The length the rolling buffer is cut back to.
HistoryLimit == 30

\* A reference that no live object uses.
Fresh(live) == CHOOSE r \in Refs : r \notin live

\* Lists that nothing refers to any more are gone.
Collected(h, live) == [r \in Refs |-> IF r \in live THEN h[r] ELSE <<>>]

\* list.append(x): in place.
list_append(h, r, x) == [h EXCEPT ![r] = Append(@, x)]

FirstOf(s, n) == IF Len(s) <= n THEN s ELSE SubSeq(s, 1, n)

\* s[-n:] for n > 0.
LastOf(s, n) == IF Len(s) <= n THEN s ELSE SubSeq(s, Len(s) - n + 1, Len(s))

list_alias(h, r, fresh) == [ref |-> r, heap |-> h]

\* list(x): a new list object with the elements of x.
list_copy(h, r, fresh) == [ref |-> fresh, heap |-> [h EXCEPT ![fresh] = h[r]]]

\* int(a / b) for b > 0: the quotient cut towards zero.
IntOfQuotient(a, b) == IF a >= 0 THEN a \div b ELSE -((-a) \div b)

NetRateUnguarded(cur, last, elapsed) ==
    IF elapsed # 0 THEN IntOfQuotient(cur - last, IF elapsed > 0 THEN elapsed ELSE -elapsed)
                        * (IF elapsed > 0 THEN 1 ELSE -1)
    ELSE cur - last

\* One rate of lines 203-205; the snapshot's default 0 stays when elapsed <= 0.
NetRate(cur, last, elapsed) ==
    IF elapsed > 0 THEN IntOfQuotient(cur - last, elapsed) ELSE 0

SystemState(ref) ==
    [cpu_percent |-> 0, cpu_history |-> ref, net_sent_bytes |-> 0, net_recv_bytes |-> 0]

\* g = [heap, buf, net]: the heap and the two module globals before the call;
\* live: the references in use; cpu, sent, recv, now: what psutil and the clock
\* give this call.  Returns the same three after the call and the snapshot.
collect_system(g, live, cpu, sent, recv, now) ==
    LET h1 == list_append(g.heap, g.buf, cpu)
        cut == Len(h1[g.buf]) > HistoryLimit
        buf == IF cut THEN Fresh(live) ELSE g.buf
        h2 == IF cut THEN [h1 EXCEPT ![buf] = LastOf(h1[g.buf], HistoryLimit)] ELSE h1
        copy == list_copy(h2, buf, Fresh(live \cup {buf}))
        elapsed == IF g.net.time # 0 THEN now - g.net.time ELSE 1
    IN  [heap |-> copy.heap,
         buf |-> buf,
         net |-> [sent |-> sent, recv |-> recv, time |-> now],
         state |-> [SystemState(copy.ref) EXCEPT
                       !.cpu_percent = cpu,
                       !.net_sent_bytes = NetRate(sent, g.net.sent, elapsed),
                       !.net_recv_bytes = NetRate(recv, g.net.recv, elapsed)]]

---------------------------------------------------------------------------
(* The collectors as callbacks of the event loop: one runs to completion,  *)
(* then its value is handed over and the loop is free for the next.        *)

NoCall == [op |-> "none"]

NoHeld == [kept |-> FALSE]

\* TermPulseApp before on_mount.  A value a collector returned is the serial
\* number of the call that returned it; 0 is None.  handler and log are the
\* last handler that ran and the collector calls it made; stored holds the
\* values collect_git and collect_commands last returned to _refresh_git and
\* _refresh_commands.
NoApp ==
    [mounted |-> FALSE, _last_git |-> 0, _last_commands |-> 0, _diff_view |-> FALSE,
     serial |-> 0, handler |-> "", log |-> <<>>,
     stored |-> [git |-> 0, commands |-> 0]]

\* DiffExplorer.__init__: no files, the first row selected, nothing expanded.
\* diff_files is the list of the paths of its DiffFile entries; last is the
\* method that ran last, the key it got and the positions of diff_files it
\* read by index.
NoFiles ==
    [diff_files |-> <<>>, _selected_idx |-> 0, _expanded |-> {},
     last |-> [op |-> "__init__", key |-> "", indexed |-> {}, raised |-> FALSE]]

Init ==
    /\ call = NoCall
    /\ heap = [r \in Refs |-> <<>>]
    /\ _cpu_history = "list1"
    /\ _net_last = [sent |-> 0, recv |-> 0, time |-> 0]
    /\ cpu_samples = <<>>
    /\ held = NoHeld
    /\ app = NoApp
    /\ explorer = NoFiles

Idle == call.op = "none"

CollectGit(e) ==
    LET r == collect_git(e)
    IN  /\ call' = [op |-> "collect_git", env |-> e, raised |-> r.raised,
                   ret |-> r.state, calls |-> r.calls]
        /\ UNCHANGED globals

CollectDiffFiles(e) ==
    LET r == collect_diff_files(e)
    IN  /\ call' = [op |-> "collect_diff_files", env |-> e, raised |-> r.raised,
                   ret |-> r.ret, calls |-> r.calls]
        /\ UNCHANGED globals

CollectFileHeatmap(e) ==
    LET r == collect_file_heatmap(e)
    IN  /\ call' = [op |-> "collect_file_heatmap", env |-> e, raised |-> r.raised,
                   ret |-> r.ret, calls |-> r.calls]
        /\ UNCHANGED globals

Return ==
    /\ ~Idle
    /\ call' = NoCall
    /\ UNCHANGED globals

PollGit == Idle /\ \E e \in GitEnvs : CollectGit(e)

PollDiffFiles == Idle /\ \E e \in DiffEnvs : CollectDiffFiles(e)

PollFileHeatmap == Idle /\ \E e \in HeatEnvs : CollectFileHeatmap(e)

Next == PollGit \/ PollDiffFiles \/ PollFileHeatmap \/ Return

Spec == Init /\ [][Next]_vars

---------------------------------------------------------------------------
(* Porcelain status lines through collect_git, every other command failing *)

MaxStatusLines == 3

StatusChars == {" ", "M", "A", "D", "R", "C", "T", "U", "?", "!"}

\* Every pair of columns, and two lines too short to hold a pair.
StatusLines ==
    {<<x, y, " ", "a">> : x \in StatusChars, y \in StatusChars} \cup {<<>>, <<"U">>}

\* The lines after the first: one of each kind the loop tells apart.
FollowLines ==
    {<<" ", "M", " ", "b">>, <<"M", " ", " ", "b">>, <<"M", "D", " ", "b">>,
     <<"U", "U", " ", "b">>, <<"?", "?", " ", "b">>}

RECURSIVE StatusTexts(_)
StatusTexts(n) ==
    IF n = 0 THEN {<<>>}
    ELSE IF n = 1 THEN {<<l>> : l \in StatusLines}
    ELSE {Append(t, l) : t \in StatusTexts(n - 1), l \in FollowLines}

\* What `git status --porcelain` prints for the lines.
StatusStdout(lines) == IF lines = <<>> THEN <<>> ELSE Join(lines) \o <<"\n">>

StatusEnv(lines) ==
    [probe |-> ProbeTrue, branch |-> ExitFail, head |-> ExitFail, revlist |-> ExitFail,
     status |-> Ok(StatusStdout(lines)), ct |-> ExitFail, msg |-> ExitFail,
     log |-> ExitFail, stash |-> ExitFail, now |-> 10000]

PollStatus ==
    Idle /\ \E n \in 0..MaxStatusLines : \E lines \in StatusTexts(n) :
                CollectGit(StatusEnv(lines))

NextStatus == PollStatus \/ Return

SpecStatus == Init /\ [][NextStatus]_vars

---------------------------------------------------------------------------
(* drift_level read off snapshots of a repository whose last commit ages   *)

MaxAge == 7200

\* The seconds by which the age grows between two reads.
AgeSteps == {1, 60, 900}

\* state.drift_level on a snapshot with the age; prev_level is the level the
\* read before gave.
ReadDrift(age, prev) ==
    /\ call' = [op |-> "drift_level", age |-> age, prev_level |-> prev,
                level |-> drift_level([GitState EXCEPT !.is_repo = TRUE,
                                                       !.last_commit_age_seconds = age])]
    /\ UNCHANGED globals

FirstDrift ==
    Idle /\ \E age \in 0..MaxAge :
              ReadDrift(age, drift_level([GitState EXCEPT !.last_commit_age_seconds = age]))

LaterDrift ==
    /\ call.op = "drift_level"
    /\ \E d \in AgeSteps : call.age + d <= MaxAge /\ ReadDrift(call.age + d, call.level)

NextDrift == FirstDrift \/ LaterDrift

SpecDrift == Init /\ [][NextDrift]_vars

---------------------------------------------------------------------------
(* DiffFile.change_ratio                                                   *)

MaxLines == 20

ReadChangeRatio(ins, dels) ==
    LET f == [DiffFile(<<"a">>, "M") EXCEPT !.insertions = ins, !.deletions = dels]
    IN  /\ call' = [op |-> "change_ratio", file |-> f, total |-> DiffTotalChanges(f),
                    ratio |-> change_ratio(f)]
        /\ UNCHANGED globals

PollChangeRatio ==
    Idle /\ \E ins \in 0..MaxLines, dels \in 0..MaxLines : ReadChangeRatio(ins, dels)

NextDiffFile == PollChangeRatio \/ Return

SpecDiffFile == Init /\ [][NextDiffFile]_vars

---------------------------------------------------------------------------
(* _categorize_command                                                     *)

COMMAND_CATEGORIES ==
    << [cat |-> "git", cmds |-> <<"git">>],
       [cat |-> "python",
        cmds |-> <<"python", "python3", "pip", "pip3", "pytest", "mypy", "ruff">>],
       [cat |-> "node",
        cmds |-> <<"node", "npm", "npx", "yarn", "pnpm", "bun", "tsx", "ts-node">>],
       [cat |-> "build",
        cmds |-> <<"make", "cargo", "go", "gcc", "cmake", "gradle", "mvn">>],
       [cat |-> "navigate",
        cmds |-> <<"cd", "ls", "ll", "lll", "pwd", "fd", "rg", "bat", "cat", "less">>],
       [cat |-> "edit", cmds |-> <<"vim", "nvim", "nano", "code", "cursor", "emacs">>],
       [cat |-> "docker",
        cmds |-> <<"docker", "docker-compose", "podman", "kubectl", "k9s">>],
       [cat |-> "shell",
        cmds |-> <<"echo", "export", "source", "alias", "which", "type", "env">>],
       [cat |-> "network", cmds |-> <<"curl", "wget", "ssh", "scp", "rsync", "httpie">>],
       [cat |-> "claude", cmds |-> <<"claude", "grip", "gg", "ggr", "ggl", "sesh">>] >>

\* `base in cmds`: base is the text of one listed name.
InList(base, cmds) == \E i \in 1..Len(cmds) : base = <<cmds[i]>>

\* The for loop over the table, from entry i on.
RECURSIVE CategoryFrom(_, _)
CategoryFrom(base, i) ==
    IF i > Len(COMMAND_CATEGORIES) THEN "other"
    ELSE IF InList(base, COMMAND_CATEGORIES[i].cmds) THEN COMMAND_CATEGORIES[i].cat
    ELSE CategoryFrom(base, i + 1)

\* The classifier without line 251: the first token looked up as it is.
_categorize_command_whole_token(cmd) ==
    CategoryFrom(IF strip(cmd) # <<>> THEN split(strip(cmd))[1] ELSE <<>>, 1)

_categorize_command(cmd) ==
    LET token == IF strip(cmd) # <<>> THEN split(strip(cmd))[1] ELSE <<>>
        pieces == split_on(token, "/")
    IN  CategoryFrom(pieces[Len(pieces)], 1)

\* The command lines classified: blanks, an executable, arguments.
LeadingBlanks == {<<>>, <<" ">>, <<"\t", " ">>}

ListedNames ==
    UNION {{COMMAND_CATEGORIES[i].cmds[j] : j \in 1..Len(COMMAND_CATEGORIES[i].cmds)} :
              i \in 1..Len(COMMAND_CATEGORIES)}

\* Every listed name, two unlisted ones (the second is "gitk": a listed name
\* with more after it) and no executable at all.
Executables ==
    {<<n>> : n \in ListedNames} \cup {<<"unknown_tool">>, <<"git", "k">>, <<>>}

Arguments == {<<>>, <<" ", "status", " ", "/", "tmp", "/", "git">>, <<" ", " ">>}

\* Directory paths to put before the executable; the last two hold whitespace.
Directories ==
    {<<"/", "usr", "/", "bin", "/">>, <<".", "/">>, <<"/">>,
     <<"/", "usr", "/", "local", "/", "git", "/">>,
     <<"/", "my", " ", "tools", "/">>, <<"vim", "\t", "x", "/">>}

\* The classifier on a command line and on the same line with dir before its
\* executable.  A line with no executable has no arguments and no directory.
Categorize(lead, dir, exe, args) ==
    LET cmd == lead \o exe \o args
        prefixed == lead \o dir \o exe \o args
    IN  /\ call' = [op |-> "_categorize_command", exe |-> exe, dir |-> dir,
                    cmd |-> cmd, ret |-> _categorize_command(cmd),
                    prefixed |-> prefixed, ret_prefixed |-> _categorize_command(prefixed)]
        /\ UNCHANGED globals

PollCategorize ==
    Idle /\ \E lead \in LeadingBlanks, exe \in Executables, args \in Arguments :
              \E dir \in IF exe = <<>> THEN {<<>>} ELSE Directories :
                 (exe = <<>> => args \in {<<>>, <<" ", " ">>})
                 /\ Categorize(lead, dir, exe, args)

NextCategorize == PollCategorize \/ Return

SpecCategorize == Init /\ [][NextCategorize]_vars

---------------------------------------------------------------------------
(* collect_momentum                                                        *)

CommandEntry(cat) ==
    [raw |-> <<cat>>, command |-> <<cat>>, category |-> cat, timestamp |-> None]

\* round(): to the nearest integer, a tie to the even one; num >= 0, den > 0.
Round(num, den) ==
    LET q == num \div den
        r == num % den
    IN  IF 2 * r < den THEN q
        ELSE IF 2 * r > den THEN q + 1
        ELSE IF q % 2 = 0 THEN q ELSE q + 1

\* math.log2(n) in ten-thousandths, n = 1 .. 16.
Log2 ==
    <<0, 10000, 15850, 20000, 23219, 25850, 28074, 30000,
      31699, 33219, 34594, 35850, 37004, 38074, 39069, 40000>>

\* command_distribution: the categories that occur, and how often each does.
Categories(entries) == {entries[i].category : i \in 1..Len(entries)}

CategoryCount(entries, cat) ==
    Cardinality({i \in 1..Len(entries) : entries[i].category = cat})

\* The sum of c * log2(c) over the counts c of the categories cats.
RECURSIVE SumCLogC(_, _)
SumCLogC(entries, cats) ==
    IF cats = {} THEN 0
    ELSE LET cat == CHOOSE x \in cats : TRUE
             c == CategoryCount(entries, cat)
         IN  c * Log2[c] + SumCLogC(entries, cats \ {cat})

\* The entropy in hundredths, not divided by max_entropy.
command_diversity_unnormalized(commands) ==
    LET total == Len(commands)
        cats == Categories(commands)
    IN  IF commands # <<>> /\ total > 0 /\ Cardinality(cats) > 1
        THEN Round(100 * (total * Log2[total] - SumCLogC(commands, cats)), total * 10000)
        ELSE 0

\* command_diversity in hundredths.  The entropy -sum(p * log2(p)), p = c / total,
\* is log2(total) - sum(c * log2(c)) / total.
command_diversity(commands) ==
    LET total == Len(commands)
        cats == Categories(commands)
        max_entropy == Log2[Cardinality(cats)]
    IN  IF commands # <<>> /\ total > 0 /\ Cardinality(cats) > 1
        THEN Round(100 * (total * Log2[total] - SumCLogC(commands, cats)),
                   total * max_entropy)
        ELSE 0

\* The lines `git log --oneline --since=1.hour.ago` prints, counted.
commits_this_session(p) ==
    IF p.kind = "exit" /\ p.rc = 0 /\ strip(p.stdout) # <<>>
    THEN Len(splitlines(strip(p.stdout)))
    ELSE 0

\* The velocity without the floor of 0.1 hours under the session time.
commit_velocity_unfloored(commits, seconds) ==
    Round(commits * 36000, IF seconds > 1 THEN seconds ELSE 1)

\* commit_velocity_per_hour in tenths: round(commits / max(seconds / 3600, 0.1), 1).
commit_velocity_per_hour(commits, seconds) ==
    Round(commits * 36000, IF seconds > 360 THEN seconds ELSE 360)

\* flow_score.  With v the velocity in tenths, d the diversity in hundredths and
\* a the age in seconds, 100 * (0.4 * min(v/30, 1) + 0.3 * d/100 + 0.3 * (1 - p))
\* is (160 * min(v, 30) + 36 * d + 3600 * (1 - p)) / 120, and 3600 * (1 - p) is
\* 3600 - min(a, 3600) in a repository and 1800 outside one.
flow_score(git, velocity, diversity) ==
    LET a == git.last_commit_age_seconds
        calm == IF git.is_repo THEN 3600 - (IF a < 3600 THEN a ELSE 3600) ELSE 1800
        v == IF velocity < 30 THEN velocity ELSE 30
    IN  Round(160 * v + 36 * diversity + calm, 120)

\* MomentumState, session_duration in seconds.
collect_momentum(git, commands, e) ==
    LET seconds == e.now - e.session_start
        commits == commits_this_session(e.log)
        velocity == commit_velocity_per_hour(commits, seconds)
        diversity == command_diversity(commands)
    IN  [session_start |-> e.session_start,
         session_duration |-> seconds,
         commits_this_session |-> commits,
         commit_velocity_per_hour |-> velocity,
         command_diversity |-> diversity,
         flow_score |-> flow_score(git, velocity, diversity),
         streak_minutes |-> 0]

MaxCommands == 4

MaxCommits == 3

MomentumCategories == {"git", "python", "other"}

RECURSIVE CommandLists(_)
CommandLists(n) ==
    IF n = 0 THEN {<<>>}
    ELSE {Append(l, CommandEntry(c)) : l \in CommandLists(n - 1), c \in MomentumCategories}

RECURSIVE LogLines(_)
LogLines(n) == IF n = 0 THEN <<>> ELSE <<"abc1234", " ", "fix", "\n">> \o LogLines(n - 1)

\* The process started at 10000; the clock reads that, or 300, 1080, 1800,
\* 7200 s more.
MomentumEnvs ==
    [log : {Ok(LogLines(n)) : n \in 0..MaxCommits} \cup {ExitFail, Timeout, Missing},
     session_start : {10000},
     now : {10000, 10300, 11080, 11800, 17200}]

\* The snapshots handed to collect_momentum: what collect_git returns in and
\* outside a work tree, for a last commit 6000 s old, 900 s old, stamped 7200 s
\* or 90 s ahead of the clock, or with no commit at all.
MomentumGitEnvs ==
    {[StatusEnv(<<>>) EXCEPT !.probe = p, !.ct = t] :
        p \in {ProbeTrue, ExitFail},
        t \in {CtPastOut, CtAheadOut, Ok(<<"9", "1", "0", "0", "\n">>),
               Ok(<<"1", "0", "0", "9", "0", "\n">>), ExitFail}}

CollectMomentum(git, commands, e) ==
    /\ call' = [op |-> "collect_momentum", git |-> git, commands |-> commands,
                env |-> e, ret |-> collect_momentum(git, commands, e),
                raised |-> RunException(e.log) \notin {"", "TimeoutExpired",
                                                       "FileNotFoundError"}]
    /\ UNCHANGED globals

PollMomentum ==
    Idle /\ \E g \in MomentumGitEnvs, n \in 0..MaxCommands, e \in MomentumEnvs :
              \E commands \in CommandLists(n) :
                 CollectMomentum(collect_git(g).state, commands, e)

NextMomentum == PollMomentum \/ Return

SpecMomentum == Init /\ [][NextMomentum]_vars

---------------------------------------------------------------------------
(* collect_system call after call in one process, with a caller that may   *)
(* keep a snapshot and change the list it holds                            *)

MaxCalls == 32

\* CPU readings: idle and busy.
CpuReadings == {0, 75}

HeldRefs == IF held.kept THEN {held.snap.cpu_history} ELSE {}

CollectSystem(cpu, sent, recv, now) ==
    LET live == {_cpu_history} \cup HeldRefs
        r == collect_system([heap |-> heap, buf |-> _cpu_history, net |-> _net_last],
                            live, cpu, sent, recv, now)
    IN  /\ call' = [op |-> "collect_system", cpu |-> cpu, sent |-> sent, recv |-> recv,
                    now |-> now, net_before |-> _net_last, ret |-> r.state]
        /\ heap' = Collected(r.heap, {r.buf, r.state.cpu_history} \cup HeldRefs)
        /\ _cpu_history' = r.buf
        /\ _net_last' = r.net
        /\ cpu_samples' = Append(cpu_samples, cpu)
        /\ UNCHANGED <<held, app, explorer>>

\* The readings of one run hold at most one busy one; the network is silent and
\* the clock moves one second per call.
PollSystem ==
    /\ Idle
    /\ Len(cpu_samples) < MaxCalls
    /\ \E cpu \in CpuReadings :
          /\ cpu # 0 => \A i \in 1..Len(cpu_samples) : cpu_samples[i] = 0
          /\ CollectSystem(cpu, 0, 0, 1000 + Len(cpu_samples))

\* The caller keeps the snapshot it was handed, in place of the one it kept.
Keep ==
    /\ call.op = "collect_system"
    /\ held' = [kept |-> TRUE, snap |-> call.ret, seen |-> heap[call.ret.cpu_history]]
    /\ heap' = Collected(heap, {_cpu_history, call.ret.cpu_history})
    /\ call' = NoCall
    /\ UNCHANGED <<_cpu_history, _net_last, cpu_samples, app, explorer>>

\* The holder appends a mark of its own, -1, to the list of the snapshot it
\* keeps; once for a snapshot.
Touch ==
    /\ Idle
    /\ held.kept
    /\ \A i \in 1..Len(held.seen) : held.seen[i] # -1
    /\ heap' = list_append(heap, held.snap.cpu_history, -1)
    /\ held' = [held EXCEPT !.seen = Append(@, -1)]
    /\ UNCHANGED <<call, _cpu_history, _net_last, cpu_samples, app, explorer>>

NextSystem == PollSystem \/ Keep \/ Touch \/ Return

SpecSystem == Init /\ [][NextSystem]_vars

---------------------------------------------------------------------------
(* The network rates of collect_system: counters that rise, fall or stay,  *)
(* and a wall clock that may stand still or step back between two calls    *)

MaxNetCalls == 3

Counters == {0, 1500, 4001}

Clock == {100, 101, 103}

PollNet ==
    /\ Idle
    /\ Len(cpu_samples) < MaxNetCalls
    /\ \E sent \in Counters, recv \in Counters, now \in Clock :
          CollectSystem(0, sent, recv, now)

NextNet == PollNet \/ Return

SpecNet == Init /\ [][NextNet]_vars

---------------------------------------------------------------------------
(* collect_diff_files over the numstat outputs: three files known from the *)
(* status, numstat lines for them and for paths the status does not know   *)

\* Every text of at most n lines, each line from the set.
LinesUpTo(lines, n) == UNION {[1..k -> lines] : k \in 0..n}

MaxNumstatLines == 2

NumstatLines ==
    {<<"3", "\t", "1", "\t", "b">>, <<"-", "\t", "-", "\t", "b">>,
     <<"2", "\t", "0", "\t", "a">>, <<"1", "2", "\t", "4", "\t", "b">>,
     <<"7", "\t", "7", "\t", "a", " ", "=", ">", " ", "b">>, <<"7", "\t", "7">>}

\* The path a numstat line names, nothing for a line that is not three fields.
NumstatPath(line) ==
    LET parts == split_on(line, "\t")
    IN  IF Len(parts) = 3 THEN parts[3] ELSE <<>>

\* git prints one numstat line for a path.
OneLinePerPath(lines) ==
    \A i, j \in 1..Len(lines) :
        i # j => NumstatPath(lines[i]) # NumstatPath(lines[j]) \/ NumstatPath(lines[i]) = <<>>

\* The paths of the status lines below.
DiffPaths == Paths \cup {<<"a", "/", "b">>, <<"a", ".", "c">>}

DiffEnv(status, numstat, cached) ==
    [probe |-> ProbeTrue, status |-> Ok(StatusStdout(status)),
     numstat |-> Ok(StatusStdout(numstat)), numstat_cached |-> Ok(StatusStdout(cached)),
     diff |-> [p \in DiffPaths |-> DiffText],
     diff_cached |-> [p \in DiffPaths |-> DiffText]]

PollNumstat ==
    Idle /\ \E numstat \in {t \in LinesUpTo(NumstatLines, MaxNumstatLines) : OneLinePerPath(t)},
               cached \in {t \in LinesUpTo(NumstatLines, MaxNumstatLines) : OneLinePerPath(t)} :
              /\ CollectDiffFiles(DiffEnv(<<<<"M", "M", " ", "b">>, <<"A", " ", " ", "a">>,
                                            <<"?", "?", " ", "c">>>>, numstat, cached))

NextNumstat == PollNumstat \/ Return

SpecNumstat == Init /\ [][NextNumstat]_vars

---------------------------------------------------------------------------
(* collect_diff_files over the status output: lines that repeat a path,    *)
(* rename it, leave it untracked or are too short to name one              *)

MaxDiffStatusLines == 3

DiffStatusLines ==
    {<<" ", "M", " ", "b">>, <<"A", " ", " ", "a">>, <<"?", "?", " ", "a", "/", "b">>,
     <<"?", "?", " ", "a">>, <<"R", " ", " ", "a", " ", "-", ">", " ", "b">>,
     <<"D", " ", " ", "a", ".", "c">>, <<"?", "?", " ", "a", ".", "c">>, <<"M", " ">>}

PollDiffStatus ==
    Idle /\ \E status \in LinesUpTo(DiffStatusLines, MaxDiffStatusLines) :
              CollectDiffFiles(DiffEnv(status, <<>>, <<>>))

NextDiffStatus == PollDiffStatus \/ Return

SpecDiffStatus == Init /\ [][NextDiffStatus]_vars

---------------------------------------------------------------------------
(* collect_file_heatmap over the log: names that repeat, blank lines and a *)
(* name with blanks around it, and limits from none to more than the paths *)

MaxLogLines == 4

PollHeatLog ==
    Idle /\ \E log \in LinesUpTo({<<"a">>, <<"b">>, <<"c">>, <<>>, <<" ", "a", " ">>},
                                 MaxLogLines),
               limit \in {0, 1, 2, 4} :
              CollectFileHeatmap([probe |-> ProbeTrue, log |-> Ok(StatusStdout(log)),
                                  author |-> [p \in Paths |-> Ok(<<"ann", "\n">>)],
                                  limit |-> limit])

NextHeatLog == PollHeatLog \/ Return

SpecHeatLog == Init /\ [][NextHeatLog]_vars

---------------------------------------------------------------------------
(* collect_commands                                                        *)
(*                                                                         *)
(* A history file is absent, present but not readable (read_bytes raises   *)
(* OSError) or present with bytes.  The atom "0xFF" is a byte that is not  *)
(* UTF-8; decoding replaces it by the atom "U+FFFD".  An exception is the  *)
(* name of its class, "" when nothing was raised.                          *)

NoFile == [exists |-> FALSE, readable |-> FALSE, bytes |-> <<>>]

Unreadable == [exists |-> TRUE, readable |-> FALSE, bytes |-> <<>>]

File(bytes) == [exists |-> TRUE, readable |-> TRUE, bytes |-> bytes]

histfile_bash_first(e) ==
    IF e.bash.exists THEN "bash" ELSE "zsh"

\* Lines 263-265: .zsh_history when it exists, .bash_history otherwise.
histfile(e) ==
    IF e.zsh.exists THEN "zsh" ELSE "bash"

\* bytes.decode("utf-8", errors="replace")
decode_replace(bytes) ==
    [i \in 1..Len(bytes) |-> IF bytes[i] = "0xFF" THEN "U+FFFD" ELSE bytes[i]]

\* lines[-limit:]; -0 is 0, so limit 0 starts the slice at the first line.
LastLines(lines, limit) ==
    LET start == IF limit > 0 THEN (IF Len(lines) > limit THEN Len(lines) - limit ELSE 0)
                 ELSE IF 0 - limit < Len(lines) THEN 0 - limit ELSE Len(lines)
    IN  SubSeq(lines, start + 1, Len(lines))

\* line.split(";", 1)
split_once(s, sep) ==
    LET i == IndexIn(s, {sep})
    IN  IF i = 0 THEN <<s>> ELSE <<SubSeq(s, 1, i - 1), SubSeq(s, i + 1, Len(s))>>

\* Lines 273-284: the timestamp and the command text of one history line.
ParseHistoryLine(line) ==
    LET parts == split_once(line, ";")
        zsh == Len(line) >= 2 /\ SubSeq(line, 1, 2) = <<":", " ">> /\ Len(parts) = 2
        fields == split_on(parts[1], ":")
        exc == IF Len(fields) < 2 THEN "IndexError"
               ELSE IF ~IsNumber(fields[2]) THEN "ValueError" ELSE ""
    IN  IF ~zsh THEN [ts |-> None, cmd |-> line]
        ELSE IF exc \in {"ValueError", "IndexError"} THEN [ts |-> None, cmd |-> parts[2]]
        ELSE [ts |-> [none |-> FALSE, val |-> int(fields[2])], cmd |-> parts[2]]

\* Lines 272-292: the entries of the lines, blank command texts left out.
RECURSIVE HistoryEntries(_)
HistoryEntries(lines) ==
    IF lines = <<>> THEN <<>>
    ELSE LET p == ParseHistoryLine(lines[1])
             raw == strip(p.cmd)
         IN  (IF raw = <<>> THEN <<>>
              ELSE <<[raw |-> raw, command |-> split(raw)[1],
                      category |-> _categorize_command(p.cmd), timestamp |-> p.ts]>>)
             \o HistoryEntries(Tail(lines))

\* e = [zsh, bash, limit].  The whole call: [raised, ret, read]; read names
\* the file whose bytes were asked for, "" when none was.
collect_commands(e) ==
    LET name == histfile(e)
        file == IF name = "zsh" THEN e.zsh ELSE e.bash
        exc == IF file.readable THEN "" ELSE "OSError"
        lines == splitlines(decode_replace(file.bytes))
    IN  IF ~file.exists THEN [raised |-> FALSE, ret |-> <<>>, read |-> ""]
        ELSE IF exc # ""
          THEN [raised |-> exc \notin {"OSError", "UnicodeDecodeError"}, ret |-> <<>>,
                read |-> name]
        ELSE [raised |-> FALSE, ret |-> HistoryEntries(LastLines(lines, e.limit)),
              read |-> name]

\* History files of up to MaxHistoryLines lines: plain and zsh-format lines,
\* blank ones, a blank command text and a line with a byte that is not UTF-8.
MaxHistoryLines == 3

HistoryLines ==
    {<<"git", " ", "status">>, <<":", " ", "1", "7", ":", "0", ";", "ls">>, <<>>,
     <<" ", "\t">>, <<":", " ", "1", "7", ":", "0", ";", " ">>, <<"0xFF", "vim", " ", "x">>}

CollectCommands(e) ==
    LET r == collect_commands(e)
    IN  /\ call' = [op |-> "collect_commands", env |-> e, raised |-> r.raised,
                    ret |-> r.ret, read |-> r.read]
        /\ UNCHANGED globals

\* Files of one line around the zsh format: a timestamp that is no number,
\* none at all, no second colon, no ';', no blank after the first colon, a
\* command text with ';' and blanks in it, and the format after other text.
FormatLines ==
    {<<":", " ", "x", ":", "0", ";", "ls">>, <<":", " ", ";", "make">>,
     <<":", " ", "1", "7", ";", "ls">>, <<":", " ", "1", "7", ":", "0">>,
     <<":", "1", "7", ":", "0", ";", "ls">>,
     <<":", " ", "1", "7", ":", "0", ";", " ", "git", " ", "status", ";", "ls", " ">>,
     <<"ls", ";", ":", " ", "1", "7", ":", "0", ";", "x">>}

PollCommands ==
    Idle /\ \E lines \in LinesUpTo(HistoryLines, MaxHistoryLines)
                          \cup {<<l>> : l \in FormatLines},
               limit \in {0, 1, 2, 100} :
              \E zsh \in {NoFile, Unreadable, File(StatusStdout(lines))},
                 bash \in {NoFile, Unreadable, File(<<"make", "\n", "0xFF">>)} :
                 CollectCommands([zsh |-> zsh, bash |-> bash, limit |-> limit])

NextCommands == PollCommands \/ Return

SpecCommands == Init /\ [][NextCommands]_vars

---------------------------------------------------------------------------
(* _run_git on its own: every way the process can end, with output that    *)
(* has whitespace before it, inside it and after it                        *)

MaxOutputLines == 2

RunGit(p) ==
    /\ call' = [op |-> "_run_git", proc |-> p, ret |-> _run_git(p),
                raised |-> RunException(p) \notin {"", "TimeoutExpired", "FileNotFoundError"}]
    /\ UNCHANGED globals

PollRunGit ==
    Idle /\ \E lines \in LinesUpTo({<<" ", "M", " ", "a">>, <<"true">>, <<>>,
                                    <<"\t", "x", " ">>}, MaxOutputLines),
               end \in {<<>>, <<"\n">>, <<" ", "\n", "\t">>},
               kind \in {"exit", "timeout", "missing"}, rc \in {0, 1, 128} :
              /\ kind # "exit" => rc = 0
              /\ kind = "missing" => lines = <<>> /\ end = <<>>
              /\ RunGit([kind |-> kind, rc |-> rc, stdout |-> Join(lines) \o end])

NextRunGit == PollRunGit \/ Return

SpecRunGit == Init /\ [][NextRunGit]_vars

---------------------------------------------------------------------------
(* collect_diff_files over one status line of every column pair, another   *)
(* that is untracked, and diffs that are there, empty, blank or failing    *)

UnstagedText == Ok(<<"@@ -1,2 +1,3 @@", "\n", "+", "x", "\n">>)

StagedText == Ok(<<"@@ -4 +4 @@", "\n", "-", "y", "\n", "+", "z", "\n">>)

PollDiffColumns ==
    Idle /\ \E x \in StatusChars, y \in StatusChars,
               d1 \in {UnstagedText, Ok(<<>>), Ok(<<" ", "\n">>), ExitFail},
               d2 \in {StagedText, Ok(<<>>), Timeout} :
              CollectDiffFiles([DiffEnv(<<<<x, y, " ", "b">>, <<"?", "?", " ", "a">>>>,
                                        <<>>, <<>>)
                                  EXCEPT !.diff = [p \in DiffPaths |-> d1],
                                         !.diff_cached = [p \in DiffPaths |-> d2]])

NextDiffColumns == PollDiffColumns \/ Return

SpecDiffColumns == Init /\ [][NextDiffColumns]_vars

---------------------------------------------------------------------------
(* change_fingerprint (widgets.py)                                         *)
(*                                                                         *)
(* A diff line is a sequence of atoms with "@@" as one atom and every      *)
(* digit an atom of its own.  The result is the sequence of its cells,     *)
(* TRUE for a hot one.                                                     *)

At(s, i) == IF i \in 1..Len(s) THEN s[i] ELSE ""

\* The length of the run of digits of s that starts at i: \d+ when > 0.
RECURSIVE DigitRun(_, _)
DigitRun(s, i) == IF At(s, i) \in Digits THEN 1 + DigitRun(s, i + 1) ELSE 0

\* The position after an optional (?:,\d+) at i, and the digits it matched.
OptionalCount(s, i) ==
    IF At(s, i) = "," /\ DigitRun(s, i + 1) > 0
      THEN [next |-> i + 1 + DigitRun(s, i + 1),
            digits |-> SubSeq(s, i + 1, i + DigitRun(s, i + 1))]
    ELSE [next |-> i, digits |-> <<>>]

\* re.match(r"@@ -\d+(?:,\d+)? \+(\d+)(?:,(\d+))? @@", line): [ok, start, end]
\* with start = int(group 1) and end = start + int(group 2 or 1).
HunkMatch(line) ==
    LET old == DigitRun(line, 4)
        a == OptionalCount(line, 4 + old)
        new == DigitRun(line, a.next + 2)
        b == OptionalCount(line, a.next + 2 + new)
        start == DigitsValue(SubSeq(line, a.next + 2, a.next + 1 + new))
        count == IF b.digits = <<>> THEN 1 ELSE DigitsValue(b.digits)
        ok == /\ At(line, 1) = "@@" /\ At(line, 2) = " " /\ At(line, 3) = "-"
              /\ old > 0
              /\ At(line, a.next) = " " /\ At(line, a.next + 1) = "+"
              /\ new > 0
              /\ At(line, b.next) = " " /\ At(line, b.next + 1) = "@@"
    IN  IF ok THEN [ok |-> TRUE, start |-> start, end |-> start + count]
        ELSE [ok |-> FALSE, start |-> 0, end |-> 0]

\* change_regions: the (start, end) of the lines that start with "@@" and match.
HunkRegions(diff_lines) ==
    {<<HunkMatch(diff_lines[n]).start, HunkMatch(diff_lines[n]).end>> :
        n \in {m \in 1..Len(diff_lines) :
                 At(diff_lines[m], 1) = "@@" /\ HunkMatch(diff_lines[m]).ok}}

\* max_line: 1, or the largest end above it.
RECURSIVE MaxEnd(_)
MaxEnd(regions) ==
    IF regions = {} THEN 1
    ELSE LET r == CHOOSE x \in regions : TRUE
             rest == MaxEnd(regions \ {r})
         IN  IF r[2] > rest THEN r[2] ELSE rest

\* (k / width) * max_line is a product of doubles.  Against an integer it
\* compares as the exact k * max_line / width does, except where the exact
\* value is an integer and the double is not: over the widths and extents of
\* this module that is (7 / 10) * 90, which is 62.99999999999999.
RoundsBelow(k, width, max_line) == <<k, width, max_line>> = <<7, 10, 90>>

\* n < (k / width) * max_line, in doubles.
BelowBound(n, k, width, max_line) ==
    n * width < k * max_line

\* n > (k / width) * max_line, in doubles.
AboveBound(n, k, width, max_line) ==
    \/ n * width > k * max_line
    \/ n * width = k * max_line /\ RoundsBelow(k, width, max_line)

change_fingerprint(diff_lines, width) ==
    LET regions == HunkRegions(diff_lines)
        max_line == MaxEnd(regions)
    IN  IF diff_lines = <<>> \/ regions = {} THEN [i \in 1..width |-> FALSE]
        ELSE [i \in 1..width |->
                \E r \in regions : /\ BelowBound(r[1], i, width, max_line)
                                   /\ AboveBound(r[2], i - 1, width, max_line)]

MaxHunkLines == 2

\* Hunk headers with and without counts, one with a count of 0 and one with
\* text after it; a merge header and one with no number, which do not match;
\* a line of content.
HunkLines ==
    {<<"@@", " ", "-", "1", ",", "5", " ", "+", "1", ",", "8", " ", "@@">>,
     <<"@@", " ", "-", "2", "0", ",", "3", " ", "+", "2", "3", ",", "5", " ", "@@">>,
     <<"@@", " ", "-", "1", " ", "+", "6", "0", ",", "3", " ", "@@">>,
     <<"@@", " ", "-", "8", "0", ",", "5", " ", "+", "8", "5", ",", "5", " ", "@@", " ", "def">>,
     <<"@@", " ", "-", "3", " ", "+", "2", ",", "0", " ", "@@">>,
     <<"@@", " ", "-", "7", " ", "+", "7", " ", "@@">>,
     <<"@@", "@", " ", "-", "1", ",", "2", " ", "-", "1", ",", "2", " ", "+", "1", ",", "3",
       " ", "@@", "@">>,
     <<"@@", " ", "-", "1", " ", "+", "x", " ", "@@">>,
     <<"+", "new">>}

Widths == {0, 1, 3, 10}

ChangeFingerprint(diff_lines, width) ==
    /\ call' = [op |-> "change_fingerprint", diff_lines |-> diff_lines, width |-> width,
                ret |-> change_fingerprint(diff_lines, width)]
    /\ UNCHANGED globals

PollFingerprint ==
    Idle /\ \E diff_lines \in LinesUpTo(HunkLines, MaxHunkLines), width \in Widths :
              ChangeFingerprint(diff_lines, width)

NextFingerprint == PollFingerprint \/ Return

SpecFingerprint == Init /\ [][NextFingerprint]_vars

---------------------------------------------------------------------------
(* TermPulseApp (app.py): the handlers of its timers and keys.  The event  *)
(* loop runs one handler at a time, to completion.                         *)

\* A collector called by a method of the app: the call is logged with its
\* arguments and the value it returns, a new one each time.
Invoke(a, by, fn, args) ==
    LET ret == a.serial + 1
    IN  [a EXCEPT !.serial = ret,
                  !.log = Append(@, [by |-> by, fn |-> fn, args |-> args, ret |-> ret]),
                  !.stored = IF by = "_refresh_git" /\ fn = "collect_git"
                               THEN [@ EXCEPT !.git = ret]
                             ELSE IF by = "_refresh_commands" /\ fn = "collect_commands"
                               THEN [@ EXCEPT !.commands = ret]
                             ELSE @]

_refresh_git(a) ==
    LET b == Invoke(a, "_refresh_git", "collect_git", <<>>)
    IN  [b EXCEPT !._last_git = b.serial]

_refresh_system(a) == Invoke(a, "_refresh_system", "collect_system", <<>>)

_refresh_commands(a) ==
    LET b == Invoke(a, "_refresh_commands", "collect_commands", <<100>>)
    IN  [b EXCEPT !._last_commands = b.serial]

\* _refresh_momentum with both values collected anew.
_refresh_momentum_fresh(a) ==
    LET b == Invoke(a, "_refresh_momentum", "collect_git", <<>>)
        c == Invoke(b, "_refresh_momentum", "collect_commands", <<100>>)
    IN  Invoke(c, "_refresh_momentum", "collect_momentum", <<b.serial, c.serial>>)

\* Lines 149-151: a cached value when there is one, a call of the collector
\* when the cache holds None.
_refresh_momentum(a) ==
    LET b == IF a._last_git # 0 THEN a
             ELSE Invoke(a, "_refresh_momentum", "collect_git", <<>>)
        git == IF a._last_git # 0 THEN a._last_git ELSE b.serial
        c == IF b._last_commands # 0 THEN b
             ELSE Invoke(b, "_refresh_momentum", "collect_commands", <<100>>)
        commands == IF b._last_commands # 0 THEN b._last_commands ELSE c.serial
    IN  Invoke(c, "_refresh_momentum", "collect_momentum", <<git, commands>>)

_refresh_diff(a) == Invoke(a, "_refresh_diff", "collect_diff_files", <<>>)

_refresh_heatmap(a) == Invoke(a, "_refresh_heatmap", "collect_file_heatmap", <<>>)

_maybe_refresh_diff(a) == IF a._diff_view THEN _refresh_diff(a) ELSE a

action_refresh(a) ==
    _refresh_momentum(_refresh_commands(_refresh_system(_refresh_git(a))))

action_toggle_diff(a) ==
    LET b == [a EXCEPT !._diff_view = ~@]
    IN  IF b._diff_view THEN _refresh_heatmap(_refresh_diff(b)) ELSE b

\* Lines 101-120: the caches are set to None, the five timers are started and
\* the four panels are loaded.
on_mount(a) ==
    LET b == [a EXCEPT !.mounted = TRUE, !._last_git = 0, !._last_commands = 0,
                       !._diff_view = FALSE]
    IN  _refresh_momentum(_refresh_commands(_refresh_system(_refresh_git(b))))

MaxCollects == 10

\* A handler of the mounted app starts with an empty log.
Started(name) == [app EXCEPT !.handler = name, !.log = <<>>]

Handled(a) ==
    /\ app.serial < MaxCollects
    /\ app' = a
    /\ UNCHANGED <<call, heap, _cpu_history, _net_last, cpu_samples, held, explorer>>

Mount == ~app.mounted /\ Handled(on_mount(Started("on_mount")))

\* The timers of lines 106-114; any of them may be the next to fire.
TickGit == app.mounted /\ Handled(_refresh_git(Started("_refresh_git")))

TickSystem == app.mounted /\ Handled(_refresh_system(Started("_refresh_system")))

TickCommands == app.mounted /\ Handled(_refresh_commands(Started("_refresh_commands")))

TickMomentum == app.mounted /\ Handled(_refresh_momentum(Started("_refresh_momentum")))

TickDiff == app.mounted /\ Handled(_maybe_refresh_diff(Started("_maybe_refresh_diff")))

\* The keys r and f of BINDINGS.
KeyRefresh == app.mounted /\ Handled(action_refresh(Started("action_refresh")))

KeyToggleDiff == app.mounted /\ Handled(action_toggle_diff(Started("action_toggle_diff")))

NextApp ==
    \/ Mount
    \/ TickGit \/ TickSystem \/ TickCommands \/ TickMomentum \/ TickDiff
    \/ KeyRefresh \/ KeyToggleDiff

SpecApp == Init /\ [][NextApp]_vars

---------------------------------------------------------------------------
(* DiffExplorer (widgets.py): keys, renders and new lists of files, in any *)
(* order                                                                   *)

Ran(op, key, indexed, raised) ==
    [op |-> op, key |-> key, indexed |-> indexed, raised |-> raised]

PathsOf(files) == {files[i] : i \in 1..Len(files)}

\* on_key with Enter reading files[_selected_idx] without the test of the
\* index before it: an index past the end raises IndexError.
on_key_unguarded(x, key) ==
    LET files == x.diff_files
        idx == x._selected_idx
        path == files[idx + 1]
        none == [x EXCEPT !.last = Ran("on_key", key, {}, FALSE)]
    IN  IF files = <<>> THEN none
        ELSE IF key \in {"j", "down"}
          THEN IF idx < Len(files) - 1 THEN [none EXCEPT !._selected_idx = idx + 1]
               ELSE none
        ELSE IF key \in {"k", "up"}
          THEN IF idx > 0 THEN [none EXCEPT !._selected_idx = idx - 1] ELSE none
        ELSE IF key = "enter"
          THEN IF idx < Len(files)
                 THEN [x EXCEPT !._expanded = IF path \in @ THEN @ \ {path}
                                              ELSE @ \cup {path},
                                !.last = Ran("on_key", key, {idx}, FALSE)]
               ELSE [x EXCEPT !.last = Ran("on_key", key, {idx}, TRUE)]
        ELSE IF key = "a"
          THEN IF Cardinality(x._expanded) = Len(files)
                 THEN [none EXCEPT !._expanded = {}]
               ELSE [none EXCEPT !._expanded = PathsOf(files)]
        ELSE none

\* Lines 535-565.  files[_selected_idx] is position _selected_idx + 1 here.
on_key(x, key) ==
    LET files == x.diff_files
        idx == x._selected_idx
        path == files[idx + 1]
        none == [x EXCEPT !.last = Ran("on_key", key, {}, FALSE)]
    IN  IF files = <<>> THEN none
        ELSE IF key \in {"j", "down"}
          THEN IF idx < Len(files) - 1 THEN [none EXCEPT !._selected_idx = idx + 1]
               ELSE none
        ELSE IF key \in {"k", "up"}
          THEN IF idx > 0 THEN [none EXCEPT !._selected_idx = idx - 1] ELSE none
        ELSE IF key = "enter"
          THEN IF 0 <= idx /\ idx < Len(files)
                 THEN [x EXCEPT !._expanded = IF path \in @ THEN @ \ {path}
                                              ELSE @ \cup {path},
                                !.last = Ran("on_key", key, {idx}, FALSE)]
               ELSE none
        ELSE IF key = "a"
          THEN IF Cardinality(x._expanded) = Len(files)
                 THEN [none EXCEPT !._expanded = {}]
               ELSE [none EXCEPT !._expanded = PathsOf(files)]
        ELSE none

\* Lines 570-576 of render: the selection is clamped and the expanded set is
\* cut down to the paths of the list.
render(x) ==
    LET files == x.diff_files
        top == IF Len(files) - 1 > 0 THEN Len(files) - 1 ELSE 0
    IN  [x EXCEPT !._selected_idx = IF files # <<>> /\ @ >= Len(files) THEN top ELSE @,
                  !._expanded = @ \cap PathsOf(files),
                  !.last = Ran("render", "", {}, FALSE)]

MaxFiles == 3

\* The lists collect_diff_files can return over Paths: each path once.
FileLists ==
    {l \in LinesUpTo(Paths, MaxFiles) : \A i, j \in 1..Len(l) : i # j => l[i] # l[j]}

Keys == {"j", "down", "k", "up", "enter", "a", "q"}

Shown(x) ==
    /\ explorer' = x
    /\ UNCHANGED <<call, heap, _cpu_history, _net_last, cpu_samples, held, app>>

KeyPress == \E key \in Keys : Shown(on_key(explorer, key))

Render == Shown(render(explorer))

\* widget.diff_files = files, by _refresh_diff of the app.
SetDiffFiles ==
    \E files \in FileLists :
       Shown([explorer EXCEPT !.diff_files = files,
                              !.last = Ran("diff_files", "", {}, FALSE)])

NextExplorer == KeyPress \/ Render \/ SetDiffFiles

SpecExplorer == Init /\ [][NextExplorer]_vars

---------------------------------------------------------------------------
(* Claims                                                                  *)

JustRan(op) == call.op = op

ProbeCall == <<Cmd("rev-parse --is-inside-work-tree")>>

\* The probe did not answer "true": it failed, or it printed something else.
ProbeNotTrue(p) == Failed(p) \/ p.stdout \notin {<<"true">>, <<"true", "\n">>}

\* C1: when the repository probe does not return "true" (non-zero exit, timeout,
\* missing binary, or another answer), collect_git returns the empty snapshot
\* (is_repo false, empty branch, every counter 0, no recent commits, is_clean)
\* and collect_diff_files and collect_file_heatmap return an empty list; the
\* probe is the only git command any of the three runs.
C1_NoRepoShortCircuit ==
    (call.op \in {"collect_git", "collect_diff_files", "collect_file_heatmap"}
       /\ ProbeNotTrue(call.env.probe))
    => /\ ~call.raised
       /\ call.calls = ProbeCall
       /\ JustRan("collect_git") =>
            /\ ~call.ret.is_repo
            /\ call.ret.branch = <<>>
            /\ \A k \in {"ahead", "behind", "staged", "modified", "untracked",
                         "conflicts", "stash_count", "last_commit_age_seconds"} :
                  call.ret[k] = 0
            /\ call.ret.recent_commits = <<>>
            /\ call.ret.last_commit_msg = <<>>
            /\ is_clean(call.ret)
       /\ ~JustRan("collect_git") => call.ret = <<>>

\* C1's case: a probe that exits 0 but prints "false" (inside .git), git ready
\* to answer every later command.
C1_Witness ==
    /\ JustRan("collect_git")
    /\ call.env.probe = Ok(<<"false", "\n">>)
    /\ call.env.status = StatusOut
    /\ ~call.ret.is_repo

\* A succeeding command of collect_git printed a number that does not parse.
GitMalformed(e) == e.revlist = RevlistBad \/ e.ct = CtBad

\* C2: after a successful probe, whichever later commands of collect_git fail
\* (non-zero exit, timeout, missing binary), no failure makes collect_git raise,
\* and the snapshot has is_repo true, the default in every field fed by a failed
\* command (0, empty text, empty list; branch "?" when both branch commands
\* fail) and the parsed value in every field fed by a succeeding command.
C2_FailuresYieldDefaults ==
    (JustRan("collect_git") /\ ~ProbeNotTrue(call.env.probe)) =>
      LET e == call.env
          g == call.ret
      IN  /\ call.raised => GitMalformed(e)
          /\ ~call.raised =>
               /\ g.is_repo
               /\ (Failed(e.branch) /\ Failed(e.head)) => g.branch = <<"?">>
               /\ e.branch = BranchOut => g.branch = <<"main">>
               /\ (e.branch # BranchOut /\ e.head = HeadOut) => g.branch = <<"abc1234">>
               /\ Failed(e.revlist) => (g.ahead = 0 /\ g.behind = 0)
               /\ e.revlist = RevlistOut => (g.ahead = 2 /\ g.behind = 1)
               /\ Failed(e.status) =>
                    <<g.staged, g.modified, g.untracked, g.conflicts>> = <<0, 0, 0, 0>>
               /\ e.status = StatusOut =>
                    <<g.staged, g.modified, g.untracked, g.conflicts>> = <<0, 1, 1, 1>>
               /\ Failed(e.ct) => g.last_commit_age_seconds = 0
               /\ e.ct = CtPastOut => g.last_commit_age_seconds = 6000
               /\ e.ct = CtAheadOut => g.last_commit_age_seconds = 0 - 7200
               /\ Failed(e.msg) => g.last_commit_msg = <<>>
               /\ e.msg = MsgOut => g.last_commit_msg = <<"fix", " ", "bug">>
               /\ Failed(e.log) => g.recent_commits = <<>>
               /\ e.log = LogOut =>
                    g.recent_commits = << <<"abc1234", " ", "fix", " ", "bug">>,
                                          <<"def5678", " ", "init">> >>
               /\ Failed(e.stash) => g.stash_count = 0
               /\ e.stash = StashOut => g.stash_count = 1

\* C2's case: both branch commands, the status and the stash list fail (each by
\* timeout) while the rev-list, the timestamp and the log succeed.
C2_Witness ==
    /\ JustRan("collect_git")
    /\ call.env.branch = Timeout /\ call.env.head = Timeout
    /\ call.env.status = Timeout /\ call.env.stash = Timeout
    /\ call.env.revlist = RevlistOut /\ call.env.ct = CtPastOut /\ call.env.log = LogOut
    /\ ~call.raised
    /\ call.ret.branch = <<"?">>
    /\ call.ret.ahead = 2

\* A succeeding command of collect_diff_files printed, for a file the status
\* lists (b, a), a numstat count that is neither a number nor "-".
DiffMalformed(e) ==
    /\ Truthy(_run_git(e.status))
    /\ \/ e.numstat = Ok(<<"x", "\t", "1", "\t", "b", "\n">>)
       \/ e.numstat_cached = Ok(<<"2", "\t", "q", "\t", "a", "\n">>)

\* C3: when a git command succeeds but prints a malformed number (ahead/behind
\* counts that are no integers, a commit timestamp that is no number, a numstat
\* count that is neither an integer nor "-"), collect_git and collect_diff_files
\* raise no error: the field or line is skipped and a result is returned.
C3_MalformedNumbersSkipped ==
    /\ (JustRan("collect_git") /\ ~ProbeNotTrue(call.env.probe) /\ GitMalformed(call.env))
          => ~call.raised
    /\ (JustRan("collect_diff_files") /\ ~ProbeNotTrue(call.env.probe)
          /\ DiffMalformed(call.env)) => ~call.raised

ConflictLine(line) == Len(line) >= 2 /\ (line[1] = "U" \/ line[2] = "U")

\* The lines of the status text the call was given.
StatusOf(e) == splitlines(rstrip(e.status.stdout))

CountLines(lines, P(_)) == Cardinality({i \in 1..Len(lines) : P(lines[i])})

\* C4: every porcelain status line with the conflict marker U in either of its
\* first two columns raises conflicts by exactly 1 and leaves staged, modified
\* and untracked as they were; no status line raises both conflicts and
\* modified.
C4_ConflictLinesCountOnce ==
    JustRan("collect_git") =>
      LET lines == StatusOf(call.env)
          g == call.ret
          rest == SubSeq(lines, 1, Len(lines) - 1)
          before == StatusLoop(GitState, rest)
          last == lines[Len(lines)]
      IN  /\ g.conflicts = CountLines(lines, ConflictLine)
          /\ lines # <<>> =>
               /\ ConflictLine(last) =>
                    /\ g.conflicts = before.conflicts + 1
                    /\ <<g.staged, g.modified, g.untracked>>
                         = <<before.staged, before.modified, before.untracked>>
               /\ ~(g.conflicts > before.conflicts /\ g.modified > before.modified)
          /\ g.conflicts + g.modified <= Len(lines)

\* C4's case: a status of three lines, the first and the last with U in a
\* column, a staged line between them.
C4_Witness ==
    /\ JustRan("collect_git")
    /\ Len(StatusOf(call.env)) = 3
    /\ StatusOf(call.env)[1] = <<"D", "U", " ", "a">>
    /\ StatusOf(call.env)[3] = <<"U", "U", " ", "b">>
    /\ call.ret.conflicts = 2
    /\ call.ret.modified = 0
    /\ call.ret.staged = 1

\* C5: total_changes is staged + modified + untracked and is_clean holds exactly
\* when total_changes is 0; conflicts enter neither, so a snapshot whose only
\* non-zero counter is conflicts has total_changes 0 and is clean.
C5_TotalChangesExcludesConflicts ==
    JustRan("collect_git") =>
      LET g == call.ret
      IN  /\ total_changes(g) = g.staged + g.modified + g.untracked
          /\ is_clean(g) <=> (total_changes(g) = 0)
          /\ (g.staged = 0 /\ g.modified = 0 /\ g.untracked = 0 /\ g.conflicts > 0)
                => (total_changes(g) = 0 /\ is_clean(g))

\* C5's case: a snapshot whose only non-zero counter is conflicts.
C5_Witness ==
    /\ JustRan("collect_git")
    /\ call.ret.conflicts = 2
    /\ call.ret.staged = 0 /\ call.ret.modified = 0 /\ call.ret.untracked = 0
    /\ total_changes(call.ret) = 0
    /\ is_clean(call.ret)

Severity(level) ==
    CASE level = "calm" -> 0 [] level = "warm" -> 1
      [] level = "hot" -> 2 [] level = "critical" -> 3

\* C6: for every non-negative age of the last commit, drift_level is calm below
\* 900 s, warm from 900 s to below 1800 s, hot from 1800 s to below 3600 s and
\* critical from 3600 s on; each age has exactly one level, and the level never
\* moves to a lower severity as the age grows.
C6_DriftLevelThresholds ==
    JustRan("drift_level") =>
      /\ call.level \in {"calm", "warm", "hot", "critical"}
      /\ call.level = "calm" <=> call.age < 900
      /\ call.level = "warm" <=> (900 <= call.age /\ call.age < 1800)
      /\ call.level = "hot" <=> (1800 <= call.age /\ call.age < 3600)
      /\ call.level = "critical" <=> call.age >= 3600
      /\ Severity(call.prev_level) <= Severity(call.level)

\* C6's case: the read at exactly 3600 s, one second after a read that was hot.
C6_Witness ==
    /\ JustRan("drift_level")
    /\ call.age = 3600
    /\ call.prev_level = "hot"
    /\ call.level = "critical"

\* C7: for every snapshot collect_git can return (in a repository or not, with
\* any age it computes from a commit timestamp and the clock) and every command
\* list, the empty one too, collect_momentum returns 0 <= flow_score <= 100.
C7_FlowScoreInRange ==
    JustRan("collect_momentum") =>
      (0 <= call.ret.flow_score /\ call.ret.flow_score <= 100)

OneCategory(commands) ==
    \A i, j \in 1..Len(commands) : commands[i].category = commands[j].category

\* C8: command_diversity is exactly 0 when the command list is empty or all its
\* entries share one category, and lies within [0, 1] (0 to 100 hundredths) for
\* every other command list.
C8_DiversityZeroOrInUnitRange ==
    JustRan("collect_momentum") =>
      /\ OneCategory(call.commands) => call.ret.command_diversity = 0
      /\ 0 <= call.ret.command_diversity
      /\ call.ret.command_diversity <= 100

\* C8's case: three entries of one category and one of another (0.81), after
\* which lists of one category and the empty list are the zero cases.
C8_Witness ==
    /\ JustRan("collect_momentum")
    /\ Len(call.commands) = 4
    /\ CategoryCount(call.commands, "git") = 3
    /\ CategoryCount(call.commands, "other") = 1
    /\ call.ret.command_diversity = 81

\* C9: for a DiffFile with non-negative insertions and deletions, change_ratio
\* is the sentinel 0.5 when insertions + deletions is 0 and insertions /
\* (insertions + deletions) otherwise: 1 with insertions only, 0 with deletions
\* only, and always within [0, 1].
C9_ChangeRatio ==
    JustRan("change_ratio") =>
      LET ins == call.file.insertions
          dels == call.file.deletions
          r == call.ratio
      IN  /\ r.den > 0
          /\ 0 <= r.num /\ r.num <= r.den
          /\ ins + dels = 0 => 2 * r.num = r.den
          /\ ins + dels > 0 => r.num * (ins + dels) = ins * r.den
          /\ (ins > 0 /\ dels = 0) => r.num = r.den
          /\ (ins = 0 /\ dels > 0) => r.num = 0

\* C9's case: 10 insertions and 5 deletions, a ratio of two thirds.
C9_Witness ==
    /\ JustRan("change_ratio")
    /\ call.file.insertions = 10 /\ call.file.deletions = 5
    /\ 3 * call.ratio.num = 2 * call.ratio.den

\* The places in the table whose list holds the executable's name.
ListedAt(exe) ==
    {i \in 1..Len(COMMAND_CATEGORIES) :
        \E j \in 1..Len(COMMAND_CATEGORIES[i].cmds) : exe = <<COMMAND_CATEGORIES[i].cmds[j]>>}

\* The first category in table order that lists the name, "other" without one.
FirstListing(exe) ==
    IF ListedAt(exe) = {} THEN "other"
    ELSE COMMAND_CATEGORIES[CHOOSE i \in ListedAt(exe) : \A k \in ListedAt(exe) : i <= k].cat

HasSpace(s) == \E i \in 1..Len(s) : IsSpace(s[i])

\* C10 as stated: _categorize_command returns the first category in table order
\* whose list holds the basename of the first whitespace-delimited token, "other"
\* when no list holds it or the input is empty or blank; and a directory path
\* put before the executable, any path, never changes the result.
C10_AnyDirectoryPrefix ==
    JustRan("_categorize_command") =>
      /\ call.ret = FirstListing(call.exe)
      /\ strip(call.cmd) = <<>> => call.ret = "other"
      /\ call.ret_prefixed = call.ret

\* C10 amended: as C10, for the directory paths that hold no whitespace.
C10_SpaceFreeDirectoryPrefix ==
    JustRan("_categorize_command") =>
      /\ call.ret = FirstListing(call.exe)
      /\ strip(call.cmd) = <<>> => call.ret = "other"
      /\ ~HasSpace(call.dir) => call.ret_prefixed = call.ret

\* C10's case: /usr/local/git/python3 with blanks before it and arguments that
\* name git: python with and without the directory.
C10_Witness ==
    /\ JustRan("_categorize_command")
    /\ call.exe = <<"python3">>
    /\ call.dir = <<"/", "usr", "/", "local", "/", "git", "/">>
    /\ call.cmd = <<" ", "python3", " ", "status", " ", "/", "tmp", "/", "git">>
    /\ call.ret = "python"
    /\ call.ret_prefixed = "python"


Min(a, b) == IF a <= b THEN a ELSE b

\* C11: after n >= 1 calls of collect_system, the cpu_history it returns is
\* the readings of the last min(n, 30) calls, oldest first: never longer than
\* 30, the oldest reading evicted, and its last element the cpu_percent of the
\* same snapshot.
C11_CpuHistoryIsLastThirty ==
    JustRan("collect_system") =>
      LET n == Len(cpu_samples)
          k == Min(n, 30)
          history == heap[call.ret.cpu_history]
      IN  /\ n >= 1
          /\ Len(history) = k
          /\ Len(history) <= 30
          /\ \A i \in 1..k : history[i] = cpu_samples[n - k + i]
          /\ history[k] = call.ret.cpu_percent

\* C11's case: the 32nd call, whose history starts at the busy third reading.
C11_Witness ==
    /\ JustRan("collect_system")
    /\ Len(cpu_samples) = 32
    /\ cpu_samples[3] = 75
    /\ Len(heap[call.ret.cpu_history]) = 30
    /\ heap[call.ret.cpu_history][1] = 75
    /\ call.ret.cpu_percent = 0


\* The sum, over the numstat lines that name exactly the path, of field k.
RECURSIVE NumstatSum(_, _, _)
NumstatSum(lines, path, k) ==
    IF lines = <<>> THEN 0
    ELSE LET parts == split_on(lines[1], "\t")
             n == IF Len(parts) = 3 /\ parts[3] = path
                  THEN (IF parts[k] = <<"-">> THEN 0 ELSE DigitsValue(parts[k]))
                  ELSE 0
         IN  n + NumstatSum(Tail(lines), path, k)

NumstatLinesOf(proc) == splitlines(rstrip(proc.stdout))

\* C12: every file known from the status ends with insertions and deletions
\* equal to its path's counts in the unstaged numstat plus its counts in the
\* staged numstat, a '-' counting as 0; lines for other paths change nothing.
C12_NumstatCountsAdd ==
    JustRan("collect_diff_files") =>
      /\ ~call.raised
      /\ {call.ret[i].path : i \in 1..Len(call.ret)} = {<<"a">>, <<"b">>, <<"c">>}
      /\ \A i \in 1..Len(call.ret) :
           LET f == call.ret[i]
               unstaged == NumstatLinesOf(call.env.numstat)
               staged == NumstatLinesOf(call.env.numstat_cached)
           IN  /\ f.insertions = NumstatSum(unstaged, f.path, 1)
                                 + NumstatSum(staged, f.path, 1)
               /\ f.deletions = NumstatSum(unstaged, f.path, 2)
                                + NumstatSum(staged, f.path, 2)

\* C12's case: b with 3 and 1 unstaged and 12 and 4 staged ends with 15 and 5,
\* beside a rename line that names no known path.
C12_Witness ==
    /\ JustRan("collect_diff_files")
    /\ call.env.numstat = Ok(<<"3", "\t", "1", "\t", "b", "\n">>)
    /\ call.env.numstat_cached =
          Ok(<<"7", "\t", "7", "\t", "a", " ", "=", ">", " ", "b", "\n",
               "1", "2", "\t", "4", "\t", "b", "\n">>)
    /\ \E i \in 1..Len(call.ret) :
          /\ call.ret[i].path = <<"b">>
          /\ call.ret[i].insertions = 15
          /\ call.ret[i].deletions = 5


\* The log lines of the call that name a path, blanks around the name dropped.
LogNames(proc) ==
    LET lines == splitlines(rstrip(proc.stdout))
    IN  {i \in 1..Len(lines) : strip(lines[i]) # <<>>}

LogNameAt(proc, i) == strip(splitlines(rstrip(proc.stdout))[i])

LogCount(proc, path) == Cardinality({i \in LogNames(proc) : LogNameAt(proc, i) = path})

\* The first log line that names the path.
LogFirst(proc, path) ==
    CHOOSE i \in LogNames(proc) :
       /\ LogNameAt(proc, i) = path
       /\ \A j \in LogNames(proc) : LogNameAt(proc, j) = path => i <= j

\* C13: collect_file_heatmap returns at most limit entries, one per path, each
\* with the number of non-blank log lines that name its path as commit_count
\* (so at least 1), larger counts first and equal counts in the order the paths
\* first occur in the log; no path left out has a larger count than a returned
\* one.
C13_HeatmapTopN ==
    JustRan("collect_file_heatmap") =>
      LET ret == call.ret
          log == call.env.log
          returned == {ret[i].path : i \in 1..Len(ret)}
          named == {LogNameAt(log, i) : i \in LogNames(log)}
      IN  /\ Len(ret) <= call.env.limit
          /\ \A i, j \in 1..Len(ret) : i # j => ret[i].path # ret[j].path
          /\ \A i \in 1..Len(ret) :
                /\ ret[i].commit_count = LogCount(log, ret[i].path)
                /\ ret[i].commit_count >= 1
          /\ \A i, j \in 1..Len(ret) :
                i < j =>
                  \/ ret[i].commit_count > ret[j].commit_count
                  \/ /\ ret[i].commit_count = ret[j].commit_count
                     /\ LogFirst(log, ret[i].path) < LogFirst(log, ret[j].path)
          /\ \A p \in named \ returned :
                \A i \in 1..Len(ret) : LogCount(log, p) <= ret[i].commit_count

\* C13's case: the log b, a, c, " a " with limit 2: a twice, then b, which
\* ties with c and comes first in the log; c is left out.
C13_Witness ==
    /\ JustRan("collect_file_heatmap")
    /\ call.env.limit = 2
    /\ call.env.log = Ok(<<"b", "\n", "a", "\n", "c", "\n", " ", "a", " ", "\n">>)
    /\ Len(call.ret) = 2
    /\ call.ret[1].path = <<"a">> /\ call.ret[1].commit_count = 2
    /\ call.ret[2].path = <<"b">> /\ call.ret[2].commit_count = 1


\* The lines of the history file that collect_commands asked for.
HistoryRead ==
    LET file == IF call.read = "zsh" THEN call.env.zsh ELSE call.env.bash
    IN  IF call.read = "" \/ ~file.readable THEN <<>>
        ELSE splitlines(decode_replace(file.bytes))

\* The command text of a history line: what follows the first ';' of a line
\* that starts with ': ', the whole line otherwise; trimmed.
CommandText(line) ==
    IF Len(line) >= 2 /\ line[1] = ":" /\ line[2] = " " /\ IndexIn(line, {";"}) # 0
    THEN strip(SubSeq(line, IndexIn(line, {";"}) + 1, Len(line)))
    ELSE strip(line)

\* The command texts of the lines in order, the blank ones left out.
RECURSIVE CommandTexts(_)
CommandTexts(lines) ==
    IF lines = <<>> THEN <<>>
    ELSE (IF CommandText(lines[1]) = <<>> THEN <<>> ELSE <<CommandText(lines[1])>>)
         \o CommandTexts(Tail(lines))

\* C14: for every limit >= 0 and every history file, collect_commands(limit)
\* returns at most limit entries, and they are the entries of the last limit
\* lines of the file in file order, blank lines left out.
C14_LastLimitLines ==
    JustRan("collect_commands") =>
      LET lines == HistoryRead
          limit == call.env.limit
          first == IF Len(lines) > limit THEN Len(lines) - limit + 1 ELSE 1
      IN  /\ Len(call.ret) <= limit
          /\ [k \in 1..Len(call.ret) |-> call.ret[k].raw]
               = CommandTexts(SubSeq(lines, first, Len(lines)))


\* C15: collect_commands reads the first history file that exists, .zsh_history
\* before .bash_history, and no other; it returns an empty list when neither
\* exists or the chosen one cannot be read, and raises nothing whatever the
\* bytes of the file, bytes that are not UTF-8 included.
C15_FirstExistingHistoryFile ==
    JustRan("collect_commands") =>
      LET e == call.env
          chosen == IF e.zsh.exists THEN e.zsh ELSE e.bash
          lines == splitlines(decode_replace(chosen.bytes))
      IN  /\ ~call.raised
          /\ call.read = (IF e.zsh.exists THEN "zsh" ELSE IF e.bash.exists THEN "bash" ELSE "")
          /\ (~chosen.exists \/ ~chosen.readable) => call.ret = <<>>
          /\ \A k \in 1..Len(call.ret) :
                \E i \in 1..Len(lines) : call.ret[k].raw = CommandText(lines[i])

\* C15's case: both files exist, .zsh_history holds a line with a byte that is
\* not UTF-8, and the entry of that line is returned with the byte replaced.
C15_Witness ==
    /\ JustRan("collect_commands")
    /\ call.env.zsh.exists /\ call.env.zsh.readable
    /\ call.env.bash.exists /\ call.env.bash.readable
    /\ call.env.limit = 100
    /\ \E i \in 1..Len(call.env.zsh.bytes) : call.env.zsh.bytes[i] = "0xFF"
    /\ call.read = "zsh"
    /\ \E k \in 1..Len(call.ret) : call.ret[k].raw = <<"U+FFFD", "vim", " ", "x">>


\* C16: _run_git returns the stdout of the command with its trailing
\* whitespace removed and nothing else changed exactly when the command exits
\* with status 0; it returns None, and raises nothing, when the status is not
\* 0, the timeout expires or there is no git binary.
C16_RunGitTrimsTrailingOnly ==
    JustRan("_run_git") =>
      LET p == call.proc
          ok == p.kind = "exit" /\ p.rc = 0
          out == call.ret.val
      IN  /\ ~call.raised
          /\ ok <=> ~call.ret.none
          /\ ~ok => call.ret = None
          /\ ok => /\ Len(out) <= Len(p.stdout)
                   /\ out = SubSeq(p.stdout, 1, Len(out))
                   /\ \A i \in (Len(out) + 1)..Len(p.stdout) : IsSpace(p.stdout[i])
                   /\ out # <<>> => ~IsSpace(out[Len(out)])

\* C16's case: exit 0 with " M a", a line break, a tab, x and blanks after it:
\* the blank before M and the tab stay, the blanks at the end go.
C16_Witness ==
    /\ JustRan("_run_git")
    /\ call.proc = Ok(<<" ", "M", " ", "a", "\n", "\t", "x", " ", " ", "\n", "\t">>)
    /\ call.ret = Some(<<" ", "M", " ", "a", "\n", "\t", "x">>)


\* C17: a snapshot that collect_system returned is not changed by a later
\* call: its cpu_history keeps the elements it was returned with; and changing
\* the cpu_history of a snapshot leaves the rolling buffer of the process as
\* it was, the last readings of the process.
C17_SnapshotsAreCopies ==
    /\ held.kept => heap[held.snap.cpu_history] = held.seen
    /\ LET n == Len(cpu_samples)
           k == Min(n, 30)
       IN  heap[_cpu_history] = [i \in 1..k |-> cpu_samples[n - k + i]]

\* C17's case: a snapshot kept after the first call, busy, to whose list the
\* holder has added its mark, with 31 calls run since it was returned.
C17_Witness ==
    /\ held.kept
    /\ held.seen = <<75, -1>>
    /\ heap[held.snap.cpu_history] = <<75, -1>>
    /\ Len(cpu_samples) = 32
    /\ Len(heap[_cpu_history]) = 30


Abs(a) == IF a >= 0 THEN a ELSE 0 - a

\* a / b cut to an integer, for b # 0.
Truncated(a, b) ==
    IF (a >= 0) = (b > 0) THEN Abs(a) \div Abs(b) ELSE 0 - (Abs(a) \div Abs(b))

\* C18 as stated: every call of collect_system after the first reports, for
\* both directions, (counter now - counter at the preceding call) / (seconds
\* of wall clock since the preceding call), cut to an integer; the first call
\* reports the raw counters.  (No quotient exists for 0 seconds; the formula
\* asks nothing of such a call.)
C18_NetRatesEveryLaterCall ==
    JustRan("collect_system") =>
      LET last == call.net_before
          elapsed == call.now - last.time
      IN  IF Len(cpu_samples) = 1
            THEN /\ call.ret.net_sent_bytes = call.sent
                 /\ call.ret.net_recv_bytes = call.recv
          ELSE elapsed # 0 =>
                 /\ call.ret.net_sent_bytes = Truncated(call.sent - last.sent, elapsed)
                 /\ call.ret.net_recv_bytes = Truncated(call.recv - last.recv, elapsed)

\* C18 amended: as C18 for the later calls that find the wall clock ahead of
\* the preceding call's; a later call that finds it standing still or stepped
\* back reports 0 for both rates.
C18_NetRatesWhenClockAdvanced ==
    JustRan("collect_system") =>
      LET last == call.net_before
          elapsed == call.now - last.time
      IN  IF Len(cpu_samples) = 1
            THEN /\ call.ret.net_sent_bytes = call.sent
                 /\ call.ret.net_recv_bytes = call.recv
          ELSE IF elapsed > 0
            THEN /\ call.ret.net_sent_bytes = Truncated(call.sent - last.sent, elapsed)
                 /\ call.ret.net_recv_bytes = Truncated(call.recv - last.recv, elapsed)
          ELSE /\ call.ret.net_sent_bytes = 0
               /\ call.ret.net_recv_bytes = 0

\* C18's case: a later call two seconds after the preceding one, 2501 bytes
\* more sent and 4001 fewer received: 1250 and -2000.
C18_Witness ==
    /\ JustRan("collect_system")
    /\ Len(cpu_samples) > 1
    /\ call.now - call.net_before.time = 2
    /\ call.sent - call.net_before.sent = 2501
    /\ call.recv - call.net_before.recv = -4001
    /\ call.ret.net_sent_bytes = 1250
    /\ call.ret.net_recv_bytes = -2000


\* C19: in the list collect_diff_files returns, every file that is not
\* untracked comes before every untracked file, and within each of the two
\* groups the paths ascend in lexicographic order.
C19_UntrackedLastThenByPath ==
    JustRan("collect_diff_files") =>
      \A i, j \in 1..Len(call.ret) :
         i < j =>
           LET f == call.ret[i]
               g == call.ret[j]
           IN  /\ f.status = "?" => g.status = "?"
               /\ (f.status = "?") = (g.status = "?") => StrLess(f.path, g.path)

\* C19's case: status lists untracked a, then b and a.c: returned as a.c, b, a.
C19_Witness ==
    /\ JustRan("collect_diff_files")
    /\ call.env.status = Ok(<<"?", "?", " ", "a", "\n", " ", "M", " ", "b", "\n",
                              "D", " ", " ", "a", ".", "c", "\n">>)
    /\ [i \in 1..Len(call.ret) |-> call.ret[i].path]
         = <<<<"a", ".", "c">>, <<"b">>, <<"a">>>>
    /\ call.ret[3].status = "?"

\* The status lines of the call that are long enough to name a path.
StatusLinesOf(e) ==
    LET lines == splitlines(rstrip(e.status.stdout))
    IN  {i \in 1..Len(lines) : Len(lines[i]) >= 3}

StatusLineAt(e, i) == splitlines(rstrip(e.status.stdout))[i]

\* C20: collect_diff_files returns at most one DiffFile per path, one for each
\* path a status line resolves to (a rename line to the text after ' -> '),
\* with the status of the first line in status order that resolves to it.
C20_FirstStatusLineWins ==
    JustRan("collect_diff_files") =>
      LET e == call.env
          ret == call.ret
      IN  /\ \A i, j \in 1..Len(ret) : i # j => ret[i].path # ret[j].path
          /\ {ret[i].path : i \in 1..Len(ret)}
               = {DiffPath(StatusLineAt(e, i)) : i \in StatusLinesOf(e)}
          /\ \A k \in 1..Len(ret) :
               LET of == {i \in StatusLinesOf(e) : DiffPath(StatusLineAt(e, i)) = ret[k].path}
                   first == CHOOSE i \in of : \A j \in of : i <= j
                   line == StatusLineAt(e, first)
               IN  ret[k].status = DiffStatus(line[1], line[2])

\* C20's case: the rename a -> b, then b modified, then b deleted: one entry,
\* for b, renamed.
C20_Witness ==
    /\ JustRan("collect_diff_files")
    /\ call.env.status = Ok(<<"R", " ", " ", "a", " ", "-", ">", " ", "b", "\n",
                              " ", "M", " ", "b", "\n", "D", " ", " ", "a", ".", "c", "\n">>)
    /\ Len(call.ret) = 2
    /\ call.ret[2].path = <<"b">>
    /\ call.ret[2].status = "R"


\* The first status line of the call that resolves to the path.
FirstLineOf(e, path) ==
    LET of == {i \in StatusLinesOf(e) : DiffPath(StatusLineAt(e, i)) = path}
    IN  StatusLineAt(e, CHOOSE i \in of : \A j \in of : i <= j)

\* C21: for every status line with index column x and worktree column y,
\* collect_diff_files gives the file exactly one status, by first match:
\* untracked when both columns are '?', added when x is 'A', deleted when x
\* or y is 'D', renamed when x is 'R', modified otherwise.
C21_StatusByFirstMatch ==
    JustRan("collect_diff_files") /\ ~call.raised =>
      \A k \in 1..Len(call.ret) :
         LET line == FirstLineOf(call.env, call.ret[k].path)
             x == line[1]
             y == line[2]
             st == call.ret[k].status
             untracked == x = "?" /\ y = "?"
             added == ~untracked /\ x = "A"
             deleted == ~untracked /\ ~added /\ (x = "D" \/ y = "D")
             renamed == ~untracked /\ ~added /\ ~deleted /\ x = "R"
         IN  /\ st \in {"?", "A", "D", "R", "M"}
             /\ (st = "?") = untracked
             /\ (st = "A") = added
             /\ (st = "D") = deleted
             /\ (st = "R") = renamed
             /\ (st = "M") = (~untracked /\ ~added /\ ~deleted /\ ~renamed)

\* C21's case: the line 'RD b', renamed in the index and deleted in the
\* worktree: b is deleted, and the untracked a comes after it.
C21_Witness ==
    /\ JustRan("collect_diff_files")
    /\ StatusLineAt(call.env, 1) = <<"R", "D", " ", "b">>
    /\ Len(call.ret) = 2
    /\ call.ret[1].path = <<"b">>
    /\ call.ret[1].status = "D"
    /\ call.ret[2].status = "?"

\* The lines a diff command leaves: none when it fails or prints only blanks.
DiffLinesOf(p) == IF Failed(p) THEN <<>> ELSE splitlines(rstrip(p.stdout))

StagedLine(line) ==
    Len(line) >= 2 /\ ~ConflictLine(line) /\ line[1] \in {"M", "A", "D", "R", "C"}

ModifiedLine(line) ==
    Len(line) >= 2 /\ ~ConflictLine(line) /\ line[2] \in {"M", "D"}

UntrackedLine(line) ==
    Len(line) >= 2 /\ line[1] = "?" /\ line[2] = "?"

\* C22: over the status lines with no U column, collect_git raises staged by
\* 1 exactly for an index column among M, A, D, R, C, modified by 1 exactly
\* for a worktree column M or D, and untracked by 1 exactly for '??': each
\* counter ends as the number of lines meeting its rule, a line may raise
\* staged and modified together, and an untracked line raises nothing else.
C22_CountersPerRule ==
    JustRan("collect_git") /\ ~call.raised =>
      LET lines == StatusOf(call.env)
          g == call.ret
      IN  /\ g.staged = CountLines(lines, StagedLine)
          /\ g.modified = CountLines(lines, ModifiedLine)
          /\ g.untracked = CountLines(lines, UntrackedLine)
          /\ \A i \in 1..Len(lines) :
               UntrackedLine(lines[i]) => ~StagedLine(lines[i]) /\ ~ModifiedLine(lines[i])

\* C22's case: 'MD a' raises staged and modified, 'M  b' staged alone and
\* '?? b' untracked alone.
C22_Witness ==
    /\ JustRan("collect_git")
    /\ StatusOf(call.env) = <<<<"M", "D", " ", "a">>, <<"M", " ", " ", "b">>,
                              <<"?", "?", " ", "b">>>>
    /\ call.ret.staged = 2
    /\ call.ret.modified = 1
    /\ call.ret.untracked = 1
    /\ call.ret.conflicts = 0

\* The text between the ': ' a line starts with and the next ':' or ';'.
StampText(line) ==
    LET rest == SubSeq(line, 2, Len(line))
        end == IndexIn(rest, {":", ";"})
    IN  SubSeq(rest, 1, end - 1)

\* The line starts with ': ', a numeric timestamp and, later, the ';'.
ExtendedFormat(line) ==
    /\ Len(line) >= 2 /\ line[1] = ":" /\ line[2] = " "
    /\ IndexIn(line, {";"}) # 0
    /\ IsNumber(StampText(line))

\* What the claim gives one history line: its timestamp and command text.
ClaimedEntry(line) ==
    IF ExtendedFormat(line)
      THEN [timestamp |-> Some(int(StampText(line))),
            raw |-> strip(SubSeq(line, IndexIn(line, {";"}) + 1, Len(line)))]
    ELSE [timestamp |-> None, raw |-> strip(line)]

RECURSIVE ClaimedEntries(_)
ClaimedEntries(lines) ==
    IF lines = <<>> THEN <<>>
    ELSE LET c == ClaimedEntry(lines[1])
         IN  (IF c.raw = <<>> THEN <<>>
              ELSE <<[timestamp |-> c.timestamp, raw |-> c.raw, command |-> split(c.raw)[1]]>>)
             \o ClaimedEntries(Tail(lines))

\* C24: a history line that starts with ': ', a numeric timestamp and the ';'
\* gives an entry with that timestamp and the text after the first ';' as its
\* command text; every other line gives its whole text, trimmed, and no
\* timestamp; the command field is the first token of the command text.
\* Read on the calls whose limit takes in every line of the file.
C24_TimestampOnlyWithNumber ==
    JustRan("collect_commands") /\ call.env.limit >= Len(HistoryRead) /\ call.env.limit > 0 =>
      [k \in 1..Len(call.ret) |->
          [timestamp |-> call.ret[k].timestamp, raw |-> call.ret[k].raw,
           command |-> call.ret[k].command]]
        = ClaimedEntries(HistoryRead)

\* The session time in seconds under the velocity: max(hours, 0.1) is 360 s
\* at the least.
SessionSeconds ==
    LET s == call.env.now - call.env.session_start
    IN  IF s > 360 THEN s ELSE 360

\* The commit lines the query printed, when it exited with status 0.
CommitLines == Len(splitlines(strip(call.env.log.stdout)))

\* C25 as stated: collect_momentum never raises on failure of its commit
\* query; a failed query leaves commits_this_session and the velocity at 0;
\* otherwise the velocity equals commits_this_session / max(session hours,
\* 0.1) and so never exceeds 10 times commits_this_session.
C25_VelocityIsQuotient ==
    JustRan("collect_momentum") =>
      LET r == call.ret
      IN  /\ ~call.raised
          /\ Failed(call.env.log) =>
               r.commits_this_session = 0 /\ r.commit_velocity_per_hour = 0
          /\ ~Failed(call.env.log) =>
               /\ r.commits_this_session = CommitLines
               /\ r.commit_velocity_per_hour * SessionSeconds
                    = 36000 * r.commits_this_session
               /\ r.commit_velocity_per_hour <= 100 * r.commits_this_session

\* C25, amended: the velocity is that quotient rounded to one decimal place:
\* within half a tenth of commits_this_session / max(session hours, 0.1), and
\* never above 10 times commits_this_session.
C25_VelocityIsRoundedQuotient ==
    JustRan("collect_momentum") =>
      LET r == call.ret
      IN  /\ ~call.raised
          /\ Failed(call.env.log) =>
               r.commits_this_session = 0 /\ r.commit_velocity_per_hour = 0
          /\ ~Failed(call.env.log) =>
               /\ r.commits_this_session = CommitLines
               /\ 2 * Abs(r.commit_velocity_per_hour * SessionSeconds
                            - 36000 * r.commits_this_session) <= SessionSeconds
               /\ r.commit_velocity_per_hour <= 100 * r.commits_this_session

\* C25's case: two commits 1080 s into the session, 6.666... an hour, reported
\* as 6.7.
C25_Witness ==
    /\ JustRan("collect_momentum")
    /\ ~Failed(call.env.log)
    /\ call.env.now - call.env.session_start = 1080
    /\ call.ret.commits_this_session = 2
    /\ call.ret.commit_velocity_per_hour = 67

\* C26: change_fingerprint(diff_lines, width) yields exactly width cells; with
\* no parsable hunk header every cell is cold; otherwise cell i is hot exactly
\* when some hunk range (newStart, newStart + newCount) overlaps the i-th of
\* width equal slices of the line extent; the cells follow from diff_lines and
\* width alone.
C26_HotWhereHunksOverlap ==
    JustRan("change_fingerprint") =>
      LET regions == HunkRegions(call.diff_lines)
          extent == MaxEnd(regions)
          width == call.width
      IN  /\ Len(call.ret) = width
          /\ regions = {} => \A i \in 1..width : ~call.ret[i]
          /\ regions # {} =>
               \A i \in 1..width :
                  call.ret[i] <=>
                    \E r \in regions : /\ r[1] * width < i * extent
                                       /\ r[2] * width > (i - 1) * extent

\* The calls of the collector fn that the last handler made.
Invoked(fn) == {i \in 1..Len(app.log) : app.log[i].fn = fn}

\* C27: one manual refresh-all invokes every collector once (repository,
\* resource, command history, momentum, changed files and heatmap), whatever
\* timers fired before it and whichever view is active.
C27_RefreshAllInvokesEveryCollector ==
    app.handler = "action_refresh" =>
      \A fn \in {"collect_git", "collect_system", "collect_commands", "collect_momentum",
                 "collect_diff_files", "collect_file_heatmap"} :
         Cardinality(Invoked(fn)) = 1

\* C28: a tick of the changed-files timer invokes neither the changed-files
\* nor the heatmap collector in dashboard view, and refreshes both in diff
\* view, for every sequence of toggles and ticks before it.
C28_DiffTimerRefreshesBothInDiffView ==
    app.handler = "_maybe_refresh_diff" =>
      IF app._diff_view
        THEN Cardinality(Invoked("collect_diff_files")) = 1
             /\ Cardinality(Invoked("collect_file_heatmap")) = 1
      ELSE Invoked("collect_diff_files") = {} /\ Invoked("collect_file_heatmap") = {}

\* C29: for every order of timer firings and manual refreshes after mount, a
\* momentum refresh passes collect_momentum the snapshot stored by the most
\* recent repository refresh and the entry list stored by the most recent
\* command-history refresh, and calls neither collect_git nor
\* collect_commands itself.
C29_MomentumUsesCachedValues ==
    app.mounted =>
      \A i \in 1..Len(app.log) :
         /\ app.log[i].fn = "collect_momentum" =>
              app.log[i].args = <<app.stored.git, app.stored.commands>>
         /\ app.log[i].by = "_refresh_momentum" => app.log[i].fn = "collect_momentum"

\* C29's case: the momentum timer fires after the repository timer has
\* replaced the snapshot of on_mount: collect_momentum gets snapshot 5 and the
\* entries 3 of on_mount, and is the one collector called.
C29_Witness ==
    /\ app.mounted
    /\ app.handler = "_refresh_momentum"
    /\ app.stored = [git |-> 5, commands |-> 3]
    /\ Len(app.log) = 1
    /\ app.log[1].fn = "collect_momentum"
    /\ app.log[1].args = <<5, 3>>

\* C30: over every sequence of key presses (j, k, up, down, enter, a), new
\* file lists and renders of DiffExplorer, the selected index is never
\* negative, Enter reads no position outside the current list, and after a
\* render of a list that is not empty the selected index is below its length
\* and the expanded set holds only paths of the list.
C30_SelectionStaysInList ==
    /\ explorer._selected_idx >= 0
    /\ ~explorer.last.raised
    /\ \A i \in explorer.last.indexed : 0 <= i /\ i < Len(explorer.diff_files)
    /\ explorer.last.op = "render" /\ explorer.diff_files # <<>> =>
         /\ explorer._selected_idx < Len(explorer.diff_files)
         /\ explorer._expanded \subseteq PathsOf(explorer.diff_files)

\* C30's case: Enter is pressed when a list of one file has replaced a longer
\* one, the third row still selected and a path of the old list expanded,
\* before any render: no position is read and nothing changes.
C30_Witness ==
    /\ explorer.last.op = "on_key"
    /\ explorer.last.key = "enter"
    /\ explorer.last.indexed = {}
    /\ explorer.diff_files = <<<<"a">>>>
    /\ explorer._selected_idx = 2
    /\ explorer._expanded = {<<"c">>}
=============================================================================
